---- MODULE Spec2Model ----
(***************************************************************************)
(* Model of the scheduling core of app.py: the greedy slot placement       *)
(* engine, the exact solver, the section generator, the repair engine and  *)
(* the targeted add of new sections.  Times are minutes since midnight,    *)
(* weekdays are 1..5 (Senin..Jumat), lecturers are 1..NumLect ordered as   *)
(* their names are, room 0 is "ONLINE", rooms 1..NumNonLab are the         *)
(* non-lab rooms and the following NumLab rooms are the lab rooms.         *)
(***************************************************************************)
EXTENDS Integers, Sequences, FiniteSets, TLC

\* ---------------------------------------------------------------- bounds
NumLect == 2
NumNonLab == 1
NumLab == 1
MaxSections == 3

\* ------------------------------------------------------ program constants
MIN_SKS_PER_DOSEN == 8
MAX_SKS_PER_DOSEN == 12
REQUIRED_SKS_PER_DOSEN == 10
MAX_COURSES_PER_DOSEN == 3

Senin == 1
Selasa == 2
Rabu == 3
Kamis == 4
Jumat == 5
weekday_order == <<Senin, Selasa, Rabu, Kamis, Jumat>>
Days == 1..5

ONLINE == 0
NON_LAB_ROOMS == [i \in 1..NumNonLab |-> i]
LAB_ROOMS == [i \in 1..NumLab |-> NumNonLab + i]
rooms == NON_LAB_ROOMS \o LAB_ROOMS
Lecturers == 1..NumLect

\* HH:MM written as minutes since midnight (_parse_minutes / parse_time)
T(h, m) == h * 60 + m

SKS_TO_MINUTES(sks) == IF sks = 3 THEN 150 ELSE 100

TIMEBLOCKS(sks) ==
  IF sks = 1 THEN
    << <<T(8,0),T(8,50)>>, <<T(8,50),T(9,40)>>, <<T(9,40),T(10,30)>>,
       <<T(10,30),T(11,20)>>, <<T(11,20),T(12,10)>>,
       <<T(14,0),T(14,50)>>, <<T(14,50),T(15,40)>>, <<T(15,40),T(16,30)>> >>
  ELSE IF sks = 2 THEN
    << <<T(8,0),T(9,40)>>, <<T(9,40),T(11,20)>>, <<T(10,30),T(12,10)>>,
       <<T(11,20),T(13,0)>>, <<T(14,0),T(15,40)>>, <<T(15,40),T(17,20)>> >>
  ELSE
    << <<T(8,0),T(10,30)>>, <<T(9,40),T(12,10)>>, <<T(10,30),T(13,0)>>,
       <<T(14,0),T(16,30)>> >>

TIMEBLOCKS_JUMAT(sks) ==
  IF sks = 1 THEN TIMEBLOCKS(1)
  ELSE IF sks = 2 THEN
    << <<T(8,0),T(9,40)>>, <<T(9,40),T(11,20)>>, <<T(10,30),T(12,10)>>,
       <<T(14,0),T(15,40)>>, <<T(15,40),T(17,20)>> >>
  ELSE
    << <<T(8,0),T(10,30)>>, <<T(9,40),T(12,10)>>, <<T(14,0),T(16,30)>> >>

get_timeblocks_for_day(day, sks) ==
  IF day = Jumat THEN TIMEBLOCKS_JUMAT(sks) ELSE TIMEBLOCKS(sks)

\* interval overlap on minutes
times_overlap(s1, e1, s2, e2) == s1 < e2 /\ s2 < e1


\* -------------------------------------------------------------- utilities
RECURSIVE SeqSum(_)
SeqSum(q) == IF q = <<>> THEN 0 ELSE Head(q) + SeqSum(Tail(q))

Range(q) == {q[i] : i \in 1..Len(q)}

Max2(a, b) == IF a >= b THEN a ELSE b
Min2(a, b) == IF a <= b THEN a ELSE b

\* all orderings of a finite set, as sequences (random.shuffle, set iteration)
RECURSIVE Perms(_)
Perms(S) ==
  IF S = {} THEN {<<>>}
  ELSE UNION {{<<x>> \o q : q \in Perms(S \ {x})} : x \in S}

\* stable ascending sort of a sequence of <<key, item>> pairs by key
\* (list.sort / sorted); keys are integers
SortPairs(q) ==
  LET n == Len(q)
      key == [i \in 1..n |-> q[i][1]] \o <<>>
      rank(i) == Cardinality({j \in 1..n : \/ key[j] < key[i]
                                           \/ key[j] = key[i] /\ j < i})
  IN [r \in 1..n |-> q[CHOOSE i \in 1..n : rank(i) = r - 1]] \o <<>>
Items(q) == [i \in 1..Len(q) |-> q[i][2]]

\* ------------------------------------------------------------------ state
VARIABLES
  pc,                   \* position of the running operation
  lecturer_preferences, \* lecturer -> preferences (users collection)
  sections,             \* sections collection: the sections to place
  schedules,            \* schedules collection: the committed timetable
  room_calendar,        \* greedy engine: booked (day, room, start, end)
  lecturer_calendar,    \* greedy engine: booked (lecturer, day, start, end)
  schedule_result,      \* greedy engine: placements in insertion order
  failed_sections,      \* greedy engine: recorded failure list
  work                  \* remaining local state of the running operation

vars == <<pc, lecturer_preferences, sections, schedules, room_calendar,
          lecturer_calendar, schedule_result, failed_sections, work>>

\* ------------------------------------------------------ preference model
NoPrefs == [available_days |-> {}, unavailable_time_ranges |-> {},
            preferred_times |-> {}]

\* a preference check that ignores unavailable_time_ranges
UnavailableHit_Ignored(prefs, day, s, e) == FALSE

\* an unavailable range is <<day, start, end>> with day 0 standing for "*"
UnavailableHit(prefs, day, s, e) ==
  \E b \in prefs.unavailable_time_ranges :
     (b[1] = 0 \/ b[1] = day) /\ times_overlap(s, e, b[2], b[3])

DayHasPreferred(prefs, day) == \E r \in prefs.preferred_times : r[1] = day
InPreferred(prefs, day, s, e) ==
  \E r \in prefs.preferred_times : r[1] = day /\ s >= r[2] /\ e <= r[3]

\* check_lecturer_preferences: <<allowed, score>>
check_lecturer_preferences(lect, day, s, e, strict_mode, is_online) ==
  LET prefs == lecturer_preferences[lect]
      avail == prefs.available_days
      offday == avail # {} /\ day \notin avail
      day_penalty == IF offday THEN 30 ELSE 0
      base == IF avail # {} /\ day \in avail THEN 75 ELSE 50
      score == IF DayHasPreferred(prefs, day)
               THEN (IF InPreferred(prefs, day, s, e) THEN 100 ELSE 60)
               ELSE base
  IN IF (~is_online) /\ UnavailableHit(prefs, day, s, e) THEN <<FALSE, 0>>
     ELSE IF offday /\ strict_mode THEN <<FALSE, 0>>
     ELSE <<TRUE, Max2(0, score - day_penalty)>>

get_match_quality(score) ==
  IF score >= 90 THEN "Excellent"
  ELSE IF score >= 70 THEN "Good"
  ELSE IF score >= 50 THEN "Acceptable" ELSE "Poor"


\* ---------------------------------------------------------------- calendar
RoomBusy(rc, day, room, s, e) ==
  \E k \in rc : k[1] = day /\ k[2] = room /\ times_overlap(s, e, k[3], k[4])

LectBusy(lc, lect, day, s, e) ==
  \E k \in lc : k[1] = lect /\ k[2] = day /\ times_overlap(s, e, k[3], k[4])

\* candidate slots in loop order: for day / for room / for timeblock
SlotsOfDayRoom(day, room, sks) ==
  LET tbs == get_timeblocks_for_day(day, sks)
  IN [i \in 1..Len(tbs) |-> [day |-> day, room |-> room,
                             start |-> tbs[i][1], end |-> tbs[i][2]]]

RECURSIVE SlotsOfDay(_, _, _)
SlotsOfDay(day, rs, sks) ==
  IF rs = <<>> THEN <<>>
  ELSE SlotsOfDayRoom(day, Head(rs), sks) \o SlotsOfDay(day, Tail(rs), sks)

RECURSIVE SlotsOfDays(_, _, _)
SlotsOfDays(ds, rs, sks) ==
  IF ds = <<>> THEN <<>>
  ELSE SlotsOfDay(Head(ds), rs, sks) \o SlotsOfDays(Tail(ds), rs, sks)

\* every (day, room, timeblock) of the week per sks, in loop order
ALL_SLOTS ==
  << SlotsOfDays(weekday_order, rooms, 1), SlotsOfDays(weekday_order, rooms, 2),
     SlotsOfDays(weekday_order, rooms, 3) >>

\* the loop "for day in ds / for room in rs / for tb" restricted to the days
\* and rooms given (both are visited in the order of weekday_order and rooms)
Slots(ds, rs, sks) ==
  SelectSeq(ALL_SLOTS[sks], LAMBDA c : c.day \in ds /\ c.room \in rs)

\* -------------------------------------------------------------------------
\* Greedy slot placement engine: schedule_sections_with_ortools
\* -------------------------------------------------------------------------
ONLINE_DAY == Rabu
ONLINE_START_TIME == T(9, 0)

OnlineIdx == {i \in DOMAIN sections : sections[i].is_online}
RegularIdx == {i \in DOMAIN sections : ~sections[i].is_online}

\* indices of a set in ascending order
Ascending(S) ==
  [r \in 1..Cardinality(S) |->
     CHOOSE x \in S : Cardinality({y \in S : y < x}) = r - 1]

\* online_sections_sorted: by (lecturer, sks), ties in construction order
online_sections_sorted ==
  LET base == Ascending(OnlineIdx)
      keyed == [i \in 1..Len(base) |->
                 <<sections[base[i]].dosen * 10 + sections[base[i]].sks, base[i]>>]
  IN Items(SortPairs(keyed))

lecturer_sections_map(lect) == {i \in RegularIdx : sections[i].dosen = lect}

calculate_restrictiveness(lect) ==
  LET prefs == lecturer_preferences[lect]
      a == IF prefs.available_days # {}
           THEN (5 - Cardinality(prefs.available_days)) * 100 ELSE 0
  IN a + Cardinality(prefs.unavailable_time_ranges) * 50
       + Cardinality(lecturer_sections_map(lect)) * 10

\* sorted_lecturers: most restrictive first, ties in order of first appearance
sorted_lecturers ==
  LET ls == {l \in Lecturers : lecturer_sections_map(l) # {}}
      firsts == {CHOOSE i \in lecturer_sections_map(l) :
                   \A j \in lecturer_sections_map(l) : i <= j : l \in ls}
      order == Ascending(firsts)
      keyed == [i \in 1..Len(order) |->
                 <<0 - calculate_restrictiveness(sections[order[i]].dosen),
                   sections[order[i]].dosen>>]
  IN Items(SortPairs(keyed))

\* --- step 1: one online section
OnlineSlot(si, rlc, nat) ==
  LET sec == sections[si]
      start == nat
      end == nat + sec.sks * 50
      tbs == get_timeblocks_for_day(ONLINE_DAY, sec.sks)
      free == SelectSeq(tbs, LAMBDA tb :
                 ~LectBusy(rlc, sec.dosen, ONLINE_DAY, tb[1], tb[2]))
  IN IF end <= T(17, 0) /\ ~LectBusy(rlc, sec.dosen, ONLINE_DAY, start, end)
     THEN [ok |-> TRUE, seq |-> TRUE, start |-> start, end |-> end]
     ELSE IF free # <<>>
     THEN [ok |-> TRUE, seq |-> FALSE, start |-> free[1][1], end |-> free[1][2]]
     ELSE [ok |-> FALSE, seq |-> FALSE, start |-> 0, end |-> 0]

GreedyPhase(q, fb, ls) ==
  IF q # <<>> THEN "online"
  ELSE IF fb # <<>> THEN "fallback"
  ELSE IF ls # <<>> THEN "regular" ELSE "rebalance"

PlaceOnline ==
  /\ pc = "online"
  /\ LET si == Head(work.queue)
         lect == sections[si].dosen
         r == OnlineSlot(si, lecturer_calendar, work.next_available_time)
     IN /\ IF r.ok
           THEN /\ lecturer_calendar' =
                     lecturer_calendar \cup {<<lect, ONLINE_DAY, r.start, r.end>>}
                /\ schedule_result' = Append(schedule_result,
                     [si |-> si, day |-> ONLINE_DAY, room |-> ONLINE,
                      start |-> r.start, end |-> r.end])
                /\ UNCHANGED failed_sections
           ELSE /\ failed_sections' = Append(failed_sections, si)
                /\ UNCHANGED <<lecturer_calendar, schedule_result>>
        /\ work' = [work EXCEPT
             !.queue = Tail(@),
             !.next_available_time = IF r.ok /\ r.seq THEN r.end ELSE @,
             !.lecturer_days_used[lect] = IF r.ok THEN @ \cup {ONLINE_DAY} ELSE @]
        /\ pc' = GreedyPhase(Tail(work.queue), work.fb, work.lecturers)
  /\ UNCHANGED <<lecturer_preferences, sections, schedules, room_calendar>>

\* --- step 2: window packing of one lecturer's regular sections
Windows ==
  LET w(i, span) == SubSeq(weekday_order, i, i + span - 1)
  IN <<w(1, 2), w(1, 3), w(2, 2), w(2, 3), w(3, 2), w(3, 3), w(4, 2)>>

TempRoomBusy(temp, c) ==
  \E i \in DOMAIN temp : temp[i].day = c.day /\ temp[i].room = c.room
       /\ times_overlap(c.start, c.end, temp[i].start, temp[i].end)

TempLectBusy(temp, c) ==
  \E i \in DOMAIN temp : temp[i].day = c.day
       /\ times_overlap(c.start, c.end, temp[i].start, temp[i].end)

WindowFeasible(lect, c, temp) ==
  /\ check_lecturer_preferences(lect, c.day, c.start, c.end, TRUE, FALSE)[1]
  /\ ~RoomBusy(room_calendar, c.day, c.room, c.start, c.end)
  /\ ~TempRoomBusy(temp, c)
  /\ ~LectBusy(lecturer_calendar, lect, c.day, c.start, c.end)
  /\ ~TempLectBusy(temp, c)

\* first candidate in loop order carrying the highest preference score
BestCandidate(lect, cands) ==
  LET sc == [i \in DOMAIN cands |->
               check_lecturer_preferences(lect, cands[i].day, cands[i].start,
                                          cands[i].end, TRUE, FALSE)[2]] \o <<>>
      top == CHOOSE x \in Range(sc) : \A y \in Range(sc) : y <= x
      i0 == CHOOSE i \in DOMAIN cands : sc[i] = top /\ \A j \in 1..(i - 1) : sc[j] # top
  IN cands[i0]

RECURSIVE PackWindow(_, _, _, _)
PackWindow(lect, todo, target_days, temp) ==
  IF todo = <<>> THEN [ok |-> TRUE, a |-> temp]
  ELSE LET si == Head(todo)
           cands == SelectSeq(Slots(target_days, Range(rooms), sections[si].sks),
                              LAMBDA c : WindowFeasible(lect, c, temp))
       IN IF cands = <<>> THEN [ok |-> FALSE, a |-> <<>>]
          ELSE LET b == BestCandidate(lect, cands)
               IN PackWindow(lect, Tail(todo), target_days,
                     Append(temp, [si |-> si, day |-> b.day, room |-> b.room,
                                   start |-> b.start, end |-> b.end]))

DaysOf(a) == {a[i].day : i \in DOMAIN a}

\* the loop over the windows: keep the first result with strictly fewer days,
\* stop once a two-day result is held
RECURSIVE PickWindow(_, _, _)
PickWindow(res, w, best) ==
  IF w > Len(res) \/ best.n = 2 THEN best
  ELSE IF res[w].ok /\ Cardinality(DaysOf(res[w].a)) < best.n
       THEN PickWindow(res, w + 1, [n |-> Cardinality(DaysOf(res[w].a)), a |-> res[w].a])
       ELSE PickWindow(res, w + 1, best)

WindowSearch(lect, sec_list) ==
  LET res == [w \in DOMAIN Windows |->
                PackWindow(lect, sec_list, Range(Windows[w]), <<>>)] \o <<>>
  IN PickWindow(res, 1, [n |-> 99, a |-> <<>>])

RoomKeys(a) == {<<a[i].day, a[i].room, a[i].start, a[i].end>> : i \in DOMAIN a}
LectKeys(lect, a) == {<<lect, a[i].day, a[i].start, a[i].end>> : i \in DOMAIN a}

PlaceLecturer ==
  /\ pc = "regular"
  /\ LET lect == Head(work.lecturers)
     IN \E sec_list \in Perms(lecturer_sections_map(lect)) :
          LET best == WindowSearch(lect, sec_list)
          IN IF best.a # <<>>
             THEN /\ room_calendar' = room_calendar \cup RoomKeys(best.a)
                  /\ lecturer_calendar' = lecturer_calendar \cup LectKeys(lect, best.a)
                  /\ schedule_result' = schedule_result \o best.a
                  /\ work' = [work EXCEPT !.lecturers = Tail(@),
                                !.lecturer_days_used[lect] = @ \cup DaysOf(best.a)]
                  /\ pc' = GreedyPhase(<<>>, <<>>, Tail(work.lecturers))
             ELSE /\ work' = [work EXCEPT !.lecturers = Tail(@), !.fb = sec_list]
                  /\ pc' = "fallback"
                  /\ UNCHANGED <<room_calendar, lecturer_calendar, schedule_result>>
  /\ UNCHANGED <<lecturer_preferences, sections, schedules, failed_sections>>

\* --- 3-phase fallback of one section
suitable_rooms(is_lab) == IF is_lab THEN LAB_ROOMS ELSE NON_LAB_ROOMS

FallbackFeasible(lect, c, strict_mode) ==
  /\ check_lecturer_preferences(lect, c.day, c.start, c.end, strict_mode, FALSE)[1]
  /\ ~RoomBusy(room_calendar, c.day, c.room, c.start, c.end)
  /\ ~LectBusy(lecturer_calendar, lect, c.day, c.start, c.end)

FallbackCands(si, ds, strict_mode) ==
  SelectSeq(Slots(ds, Range(suitable_rooms(sections[si].is_lab)), sections[si].sks),
            LAMBDA c : FallbackFeasible(sections[si].dosen, c, strict_mode))

days_phase1(lect) == lecturer_preferences[lect].available_days

\* days_to_try = list(unused days) + list(used days); the order inside each
\* group is the iteration order of a set of strings, so any order can occur
Phase2Days(si) ==
  LET lect == sections[si].dosen
      used == work.lecturer_days_used[lect]
      ok(d) == FallbackCands(si, {d}, FALSE) # <<>>
      fresh == {d \in Days \ used : ok(d)}
  IN IF fresh # {} THEN fresh ELSE {d \in used : ok(d)}

FallbackPlace(si, c) ==
  LET lect == sections[si].dosen
  IN /\ room_calendar' = room_calendar \cup {<<c.day, c.room, c.start, c.end>>}
     /\ lecturer_calendar' = lecturer_calendar \cup {<<lect, c.day, c.start, c.end>>}
     /\ schedule_result' = Append(schedule_result,
           [si |-> si, day |-> c.day, room |-> c.room, start |-> c.start, end |-> c.end])
     /\ work' = [work EXCEPT !.fb = Tail(@),
                             !.lecturer_days_used[lect] = @ \cup {c.day}]
     /\ UNCHANGED failed_sections

FallbackSection ==
  /\ pc = "fallback"
  /\ LET si == Head(work.fb)
         p1 == FallbackCands(si, days_phase1(sections[si].dosen), TRUE)
     IN IF p1 # <<>> THEN FallbackPlace(si, p1[1])
        ELSE IF Phase2Days(si) # {}
        THEN \E d \in Phase2Days(si) :
               FallbackPlace(si, FallbackCands(si, {d}, FALSE)[1])
        ELSE /\ failed_sections' = Append(failed_sections, si)
             /\ work' = [work EXCEPT !.fb = Tail(@)]
             /\ UNCHANGED <<room_calendar, lecturer_calendar, schedule_result>>
  /\ pc' = GreedyPhase(<<>>, Tail(work.fb), work.lecturers)
  /\ UNCHANGED <<lecturer_preferences, sections, schedules>>

\* --- day distribution rebalance (Friday deficit)
distribution(sr) == [d \in Days |-> Cardinality({i \in DOMAIN sr : sr[i].day = d})]

min_friday_target(sr) ==
  LET total_assigned == Len(sr)
      friday_count == distribution(sr)[Jumat]
      online_on_friday ==
        Cardinality({i \in DOMAIN sr : sr[i].day = Jumat /\ sr[i].room = ONLINE})
      t == Max2(12, Min2(15, (total_assigned * 4) \div 25))
  IN IF online_on_friday >= 6 THEN Max2(t, friday_count) ELSE t

\* first element of a candidate list, if any
FirstOrNone(q) == IF q = <<>> THEN [ok |-> FALSE] ELSE [ok |-> TRUE, slot |-> q[1]]

\* Friday candidates of a section: suitable rooms first, then the other rooms
FridayCandidates(sec) ==
  IF sec.is_online THEN SlotsOfDayRoom(Jumat, ONLINE, sec.sks)
  ELSE Slots({Jumat}, Range(suitable_rooms(sec.is_lab)), sec.sks)
       \o Slots({Jumat}, Range(suitable_rooms(~sec.is_lab)), sec.sks)

find_free_slot_NoRoomCheck(si, rc, lc) ==
  FirstOrNone(SelectSeq(FridayCandidates(sections[si]), LAMBDA c :
     /\ check_lecturer_preferences(sections[si].dosen, Jumat, c.start, c.end,
                                   TRUE, sections[si].is_online)[1]
     /\ ~LectBusy(lc, sections[si].dosen, Jumat, c.start, c.end)))

find_free_slot(si, rc, lc) ==
  FirstOrNone(SelectSeq(FridayCandidates(sections[si]), LAMBDA c :
     /\ check_lecturer_preferences(sections[si].dosen, Jumat, c.start, c.end,
                                   TRUE, sections[si].is_online)[1]
     /\ (sections[si].is_online \/ ~RoomBusy(rc, Jumat, c.room, c.start, c.end))
     /\ ~LectBusy(lc, sections[si].dosen, Jumat, c.start, c.end)))

donor_days(sr) ==
  LET ds == SelectSeq(weekday_order, LAMBDA d : d # Jumat /\ distribution(sr)[d] > 0)
  IN Items(SortPairs([i \in 1..Len(ds) |-> <<0 - distribution(sr)[ds[i]], ds[i]>>]))

\* sorted(..., reverse=True) on (room is ONLINE, not is_lab, sks)
donor_candidates(sr, donor_day) ==
  LET on == SelectSeq(sr, LAMBDA r : r.day = donor_day)
      key(r) == (IF r.room = ONLINE THEN 100 ELSE 0)
                + (IF ~sections[r.si].is_lab THEN 10 ELSE 0) + sections[r.si].sks
  IN Items(SortPairs([i \in 1..Len(on) |-> <<0 - key(on[i]), on[i].si>>]))

RECURSIVE AllDonorCandidates(_, _)
AllDonorCandidates(sr, ds) ==
  IF ds = <<>> THEN <<>>
  ELSE donor_candidates(sr, Head(ds)) \o AllDonorCandidates(sr, Tail(ds))

\* one successful move: free the old slot, book the Friday slot, rewrite the
\* schedule_result entry in place
MoveSection(st, k, lect, slot) ==
  [rc |-> (IF st.sr[k].room # ONLINE
           THEN st.rc \ {<<st.sr[k].day, st.sr[k].room, st.sr[k].start, st.sr[k].end>>}
           ELSE st.rc)
          \cup (IF slot.room # ONLINE
                THEN {<<Jumat, slot.room, slot.start, slot.end>>} ELSE {}),
   lc |-> (st.lc \ {<<lect, st.sr[k].day, st.sr[k].start, st.sr[k].end>>})
          \cup {<<lect, Jumat, slot.start, slot.end>>},
   sr |-> [st.sr EXCEPT ![k] = [si |-> st.sr[k].si, day |-> Jumat, room |-> slot.room,
                                start |-> slot.start, end |-> slot.end]],
   deficit |-> st.deficit - 1,
   moves |-> Append(st.moves, <<st.sr[k].si, st.sr[k].day, Jumat, slot.room,
                                slot.start, slot.end>>)]

TryMove(st, si, f) ==
  IF f.ok
  THEN MoveSection(st, CHOOSE k \in DOMAIN st.sr : st.sr[k].si = si,
                   sections[si].dosen, f.slot)
  ELSE st

RECURSIVE MoveToFriday(_, _)
MoveToFriday(cands, st) ==
  IF cands = <<>> \/ st.deficit <= 0 THEN st
  ELSE MoveToFriday(Tail(cands),
         TryMove(st, Head(cands), find_free_slot(Head(cands), st.rc, st.lc)))

\* The general day balance that follows looks every donor section up with
\* s.get('_id') == si; si is a list index and never equals a document id, so
\* that loop moves nothing.
Rebalance ==
  /\ pc = "rebalance"
  /\ \E st \in {MoveToFriday(
                  IF Len(schedule_result) = 0 THEN <<>>
                  ELSE AllDonorCandidates(schedule_result, donor_days(schedule_result)),
                  [rc |-> room_calendar, lc |-> lecturer_calendar,
                   sr |-> schedule_result,
                   deficit |-> min_friday_target(schedule_result)
                               - distribution(schedule_result)[Jumat],
                   moves |-> <<>>])} :
        /\ room_calendar' = st.rc
        /\ lecturer_calendar' = st.lc
        /\ schedule_result' = st.sr
        /\ work' = [work EXCEPT !.moves = st.moves]
  /\ pc' = "save_delete"
  /\ UNCHANGED <<lecturer_preferences, sections, schedules, failed_sections>>

\* a save that leaves out the placements of the online room
new_sched_SkipOnline(sr) ==
  LET kept == SelectSeq(sr, LAMBDA x : x.room # ONLINE)
  IN [i \in 1..Len(kept) |->
        [si |-> kept[i].si, day |-> kept[i].day, room |-> kept[i].room,
         start |-> kept[i].start, end |-> kept[i].end,
         sks |-> sections[kept[i].si].sks, dosen |-> sections[kept[i].si].dosen,
         is_lab |-> sections[kept[i].si].is_lab,
         preference_score |-> 0, match_quality |-> get_match_quality(0)]]

\* --- save: delete_many({}) followed by insert_many(new_sched)
new_sched(sr) ==
  [i \in 1..Len(sr) |->
     LET sec == sections[sr[i].si]
         sc == check_lecturer_preferences(sec.dosen, sr[i].day, sr[i].start,
                                          sr[i].end, FALSE, sr[i].room = ONLINE)[2]
     IN [si |-> sr[i].si, day |-> sr[i].day, room |-> sr[i].room,
         start |-> sr[i].start, end |-> sr[i].end, sks |-> sec.sks,
         dosen |-> sec.dosen, is_lab |-> sec.is_lab,
         preference_score |-> sc, match_quality |-> get_match_quality(sc)]]

SaveDelete ==
  /\ pc = "save_delete"
  /\ schedules' = <<>>
  /\ pc' = "save_insert"
  /\ UNCHANGED <<lecturer_preferences, sections, room_calendar, lecturer_calendar,
                 schedule_result, failed_sections, work>>

SaveInsert ==
  /\ pc = "save_insert"
  /\ schedules' = new_sched(schedule_result)
  /\ pc' = "done"
  /\ UNCHANGED <<lecturer_preferences, sections, room_calendar, lecturer_calendar,
                 schedule_result, failed_sections, work>>

\* --- inputs
SectionShapes ==
  { [sks |-> 1, is_lab |-> FALSE, is_online |-> TRUE],
    [sks |-> 3, is_lab |-> FALSE, is_online |-> TRUE],
    [sks |-> 2, is_lab |-> FALSE, is_online |-> FALSE],
    [sks |-> 3, is_lab |-> TRUE, is_online |-> FALSE] }

SectionKinds ==
  {[sks |-> k.sks, is_lab |-> k.is_lab, is_online |-> k.is_online, dosen |-> l] :
     k \in SectionShapes, l \in Lecturers}

PrefProfiles ==
  { NoPrefs,
    [available_days |-> {Senin, Selasa}, unavailable_time_ranges |-> {},
     preferred_times |-> {<<Selasa, T(8, 0), T(10, 30)>>}],
    [available_days |-> {Senin},
     unavailable_time_ranges |-> {<<Senin, T(7, 0), T(18, 0)>>},
     preferred_times |-> {}],
    [available_days |-> {}, unavailable_time_ranges |-> {<<0, T(7, 0), T(18, 0)>>},
     preferred_times |-> {}] }

InitGreedy ==
  /\ lecturer_preferences \in
       {f \in [Lecturers -> PrefProfiles] : \A l \in Lecturers : l > 1 => f[l] = NoPrefs}
  /\ \E n \in 1..MaxSections : sections \in [1..n -> SectionKinds]
  /\ schedules = <<>>
  /\ room_calendar = {}
  /\ lecturer_calendar = {}
  /\ schedule_result = <<>>
  /\ failed_sections = <<>>
  /\ work = [queue |-> online_sections_sorted,
             next_available_time |-> ONLINE_START_TIME,
             lecturers |-> sorted_lecturers, fb |-> <<>>,
             lecturer_days_used |-> [l \in Lecturers |-> {}], moves |-> <<>>]
  /\ pc = GreedyPhase(work.queue, <<>>, work.lecturers)

NextGreedy ==
  \/ PlaceOnline
  \/ PlaceLecturer
  \/ FallbackSection
  \/ Rebalance
  \/ SaveDelete
  \/ SaveInsert

SpecGreedy == InitGreedy /\ [][NextGreedy]_vars

\* -------------------------------------------------------------------------
\* Properties of the committed timetable
\* -------------------------------------------------------------------------
NoRoomOverlap(docs) ==
  \A i, j \in DOMAIN docs :
     (i < j /\ docs[i].day = docs[j].day /\ docs[i].room = docs[j].room
            /\ docs[i].room # ONLINE)
       => ~times_overlap(docs[i].start, docs[i].end, docs[j].start, docs[j].end)

NoLecturerOverlap(docs) ==
  \A i, j \in DOMAIN docs :
     (i < j /\ docs[i].day = docs[j].day /\ docs[i].dosen = docs[j].dosen)
       => ~times_overlap(docs[i].start, docs[i].end, docs[j].start, docs[j].end)

\* C1: the timetable committed by schedule_sections_with_ortools never holds
\* two sections overlapping in one physical room on one day, nor two
\* overlapping sections of one lecturer on one day.
C1_GreedyNoOverlap == NoRoomOverlap(schedules) /\ NoLecturerOverlap(schedules)

\* a committed timetable where two lecturers share a physical room on one day
\* and one lecturer teaches twice on one day
C1_Witness ==
  /\ pc = "done"
  /\ \E i, j \in DOMAIN schedules :
        /\ i # j /\ schedules[i].day = schedules[j].day
        /\ schedules[i].room = schedules[j].room /\ schedules[i].room # ONLINE
        /\ schedules[i].dosen # schedules[j].dosen
  /\ \E i, j \in DOMAIN schedules :
        i # j /\ schedules[i].day = schedules[j].day
              /\ schedules[i].dosen = schedules[j].dosen

\* C9: every committed placement lasts SKS_TO_MINUTES of its sks: 100 minutes
\* for 1 or 2 sks, 150 minutes for 3 sks.
C9_DurationBySks ==
  \A i \in DOMAIN schedules :
     schedules[i].end - schedules[i].start = SKS_TO_MINUTES(schedules[i].sks)

\* legal start times of a day for a section of the given sks: the starts of
\* the timeblocks of that day
LegalStarts(day, sks) ==
  {get_timeblocks_for_day(day, sks)[i][1] :
     i \in DOMAIN get_timeblocks_for_day(day, sks)}

overlaps_midday_break(day, s, e) ==
  day # Jumat /\ times_overlap(s, e, T(13, 0), T(14, 0))

\* C10: every committed placement starts at a legal start time of its day and
\* no placement on Senin..Kamis overlaps the break 13:00-14:00.
C10_LegalStartsAndBreak ==
  \A i \in DOMAIN schedules :
     /\ schedules[i].start \in LegalStarts(schedules[i].day, schedules[i].sks)
     /\ ~overlaps_midday_break(schedules[i].day, schedules[i].start, schedules[i].end)


\* -------------------------------------------------------------------------
\* Exact solver: run_ortools_scheduling_hybrid and save_schedules_to_db_hybrid
\* -------------------------------------------------------------------------
MaxExactSections == 2

get_timeslots_for_day_hybrid(day) ==
  IF day = Jumat
  THEN << <<T(8,0),T(8,50)>>, <<T(8,50),T(9,40)>>, <<T(9,40),T(10,30)>>,
          <<T(10,30),T(11,20)>>, <<T(13,50),T(14,40)>>, <<T(14,40),T(15,30)>>,
          <<T(15,30),T(16,20)>>, <<T(16,20),T(17,10)>> >>
  ELSE << <<T(8,0),T(8,50)>>, <<T(8,50),T(9,40)>>, <<T(9,40),T(10,30)>>,
          <<T(10,30),T(11,20)>>, <<T(11,20),T(12,10)>>, <<T(12,10),T(13,0)>>,
          <<T(13,59),T(14,49)>>, <<T(14,49),T(15,39)>>, <<T(15,39),T(16,29)>>,
          <<T(16,29),T(17,19)>>, <<T(17,19),T(18,9)>> >>

get_duration_slots_hybrid(sks) == IF sks \in {1, 2} THEN 2 ELSE 3

\* the boolean variables schedule[i][day][t_idx][room] of a section, named by
\* (day, t_idx, room), for a lab and for a non-lab section
HYBRID_VARS ==
  [is_lab \in BOOLEAN |->
     {v \in [day : Days, t : 1..11, room : Range(suitable_rooms(is_lab))] :
        v.t <= Len(get_timeslots_for_day_hybrid(v.day))}]

HybridVars(sec) == HYBRID_VARS[sec.is_lab]

\* constraints 2 and 3 on an assignment that makes exactly one variable of
\* every section true (constraint 1): at most one section per
\* (day, room, t_idx) and at most one section of a lecturer per (day, t_idx)
HybridConstraints(secs, a) ==
  \A i, j \in DOMAIN secs :
     i < j => /\ ~(a[i].day = a[j].day /\ a[i].t = a[j].t /\ a[i].room = a[j].room)
              /\ ~(secs[i].dosen = secs[j].dosen
                   /\ a[i].day = a[j].day /\ a[i].t = a[j].t)

\* every assignment the solver may return as OPTIMAL or FEASIBLE
HybridSolutions(secs) ==
  {a \in [DOMAIN secs -> UNION {HYBRID_VARS[l] : l \in BOOLEAN}] :
     /\ \A i \in DOMAIN secs : a[i] \in HybridVars(secs[i])
     /\ HybridConstraints(secs, a)}

\* extraction of the solution onto the section objects
ExtractHybrid(secs, a) ==
  [i \in DOMAIN secs |->
     LET ts == get_timeslots_for_day_hybrid(a[i].day)
         end_idx == Min2(a[i].t + get_duration_slots_hybrid(secs[i].sks) - 1, Len(ts))
     IN [si |-> i, day |-> a[i].day, room |-> a[i].room,
         start |-> ts[a[i].t][1], end |-> ts[end_idx][2],
         dosen |-> secs[i].dosen, sks |-> secs[i].sks, is_lab |-> secs[i].is_lab]]

\* Constraint 3 indexes schedule[i][day][t_idx][room] with the physical rooms
\* of every section, and an online section only has the key 'Online': the
\* function raises KeyError when an online section is present.
SolveHybrid ==
  /\ pc = "solve"
  /\ IF \E i \in DOMAIN sections : sections[i].is_online
     THEN pc' = "raised" /\ UNCHANGED work
     ELSE \E sols \in {HybridSolutions(sections)} :
            IF sols = {} THEN pc' = "no_solution" /\ UNCHANGED work
            ELSE \E a \in sols :
                   /\ work' = [true_vars |-> {<<i, a[i]>> : i \in DOMAIN sections},
                               assigned |-> ExtractHybrid(sections, a)]
                   /\ pc' = "hybrid_delete"
  /\ UNCHANGED <<lecturer_preferences, sections, schedules, room_calendar,
                 lecturer_calendar, schedule_result, failed_sections>>

SaveHybridDelete ==
  /\ pc = "hybrid_delete"
  /\ schedules' = <<>>
  /\ pc' = "hybrid_insert"
  /\ UNCHANGED <<lecturer_preferences, sections, room_calendar, lecturer_calendar,
                 schedule_result, failed_sections, work>>

SaveHybridInsert ==
  /\ pc = "hybrid_insert"
  /\ schedules' = work.assigned
  /\ pc' = "hybrid_done"
  /\ UNCHANGED <<lecturer_preferences, sections, room_calendar, lecturer_calendar,
                 schedule_result, failed_sections, work>>

ExactShapes ==
  { [sks |-> 2, is_lab |-> FALSE, is_online |-> FALSE],
    [sks |-> 3, is_lab |-> TRUE, is_online |-> FALSE],
    [sks |-> 2, is_lab |-> FALSE, is_online |-> TRUE] }

ExactKinds ==
  {[sks |-> k.sks, is_lab |-> k.is_lab, is_online |-> k.is_online, dosen |-> l] :
     k \in ExactShapes, l \in Lecturers}

InitExact ==
  /\ \E n \in 1..MaxExactSections :
        sections \in {f \in [1..n -> ExactKinds] : f[1].dosen = 1}
  /\ lecturer_preferences = [l \in Lecturers |-> NoPrefs]
  /\ schedules = <<>>
  /\ room_calendar = {}
  /\ lecturer_calendar = {}
  /\ schedule_result = <<>>
  /\ failed_sections = <<>>
  /\ work = [true_vars |-> {}, assigned |-> <<>>]
  /\ pc = "solve"

NextExact == SolveHybrid \/ SaveHybridDelete \/ SaveHybridInsert

SpecExact == InitExact /\ [][NextExact]_vars

\* C4: in every solution returned by run_ortools_scheduling_hybrid each
\* section has exactly one true (day, start slot, room) variable and, over the
\* full extracted [start, end) intervals, no two sections overlap in one
\* physical room on one day and no two sections of one lecturer overlap on
\* one day.
C4_ExactSolutionNoOverlap ==
  pc \in {"hybrid_delete", "hybrid_insert", "hybrid_done"} =>
    /\ \A i \in DOMAIN sections :
          Cardinality({v \in work.true_vars : v[1] = i}) = 1
    /\ NoRoomOverlap(work.assigned)
    /\ NoLecturerOverlap(work.assigned)


\* -------------------------------------------------------------------------
\* Full replacement of the timetable with a concurrent reader
\* (check_conflicts, exports: list(schedules_collection.find()))
\* -------------------------------------------------------------------------
MaxSaveSections == 2

\* one request thread reading the whole collection while the engine runs
ReadSchedules ==
  /\ work' = [work EXCEPT !.observed = [seen |-> TRUE, docs |-> schedules]]
  /\ UNCHANGED <<pc, lecturer_preferences, sections, schedules, room_calendar,
                 lecturer_calendar, schedule_result, failed_sections>>

\* timetables committed by an earlier run
PreviousTimetables ==
  { << [si |-> 1, day |-> Jumat, room |-> 1, start |-> T(8,0), end |-> T(9,40),
        sks |-> 2, dosen |-> 1, is_lab |-> FALSE, preference_score |-> 50,
        match_quality |-> "Acceptable"] >>,
    << [si |-> 1, day |-> Jumat, room |-> 1, start |-> T(8,0), end |-> T(9,40),
        sks |-> 2, dosen |-> 1, is_lab |-> FALSE, preference_score |-> 50,
        match_quality |-> "Acceptable"],
       [si |-> 2, day |-> Jumat, room |-> ONLINE, start |-> T(9,40), end |-> T(12,10),
        sks |-> 3, dosen |-> 1, is_lab |-> FALSE, preference_score |-> 50,
        match_quality |-> "Acceptable"] >> }

InitSave ==
  /\ lecturer_preferences \in
       {f \in [Lecturers -> PrefProfiles] : \A l \in Lecturers : l > 1 => f[l] = NoPrefs}
  /\ \E n \in 1..MaxSaveSections : sections \in [1..n -> SectionKinds]
  /\ schedules \in PreviousTimetables
  /\ room_calendar = {}
  /\ lecturer_calendar = {}
  /\ schedule_result = <<>>
  /\ failed_sections = <<>>
  /\ work = [queue |-> online_sections_sorted,
             next_available_time |-> ONLINE_START_TIME,
             lecturers |-> sorted_lecturers, fb |-> <<>>,
             lecturer_days_used |-> [l \in Lecturers |-> {}], moves |-> <<>>,
             previous |-> schedules,
             observed |-> [seen |-> FALSE, docs |-> <<>>]]
  /\ pc = GreedyPhase(work.queue, <<>>, work.lecturers)

NextSave == NextGreedy \/ ReadSchedules

SpecSave == InitSave /\ [][NextSave]_vars

\* C6: a reader running while the timetable is replaced (delete all, then
\* bulk insert) observes the complete previous timetable or the complete new
\* timetable, never an empty or partial set of placements.
C6_ReaderSeesWholeTimetable ==
  work.observed.seen =>
    \/ work.observed.docs = work.previous
    \/ /\ pc \in {"save_delete", "save_insert", "done"}
       /\ work.observed.docs = new_sched(schedule_result)


\* -------------------------------------------------------------------------
\* Section generator: course selection, calculate_sections_needed_hybrid with
\* create_initial_sections_hybrid, and generate_sections_ga_pipeline
\* -------------------------------------------------------------------------
MaxCourses == 2
max_iterations == 200

RECURSIVE Flatten(_)
Flatten(qs) == IF qs = <<>> THEN <<>> ELSE Head(qs) \o Flatten(Tail(qs))

\* choose_course: a lecturer opts in to a course
choose_course(l, c) ==
  /\ pc = "select"
  /\ l \in work.users
  /\ ~(Len(work.courses[c].selected_by) >= 3 /\ l \notin Range(work.courses[c].selected_by))
  /\ Cardinality({i \in DOMAIN work.courses : l \in Range(work.courses[i].selected_by)})
       < MAX_COURSES_PER_DOSEN
  /\ l \notin Range(work.courses[c].selected_by)
  /\ work' = [work EXCEPT !.courses[c].selected_by = Append(@, l)]
  /\ UNCHANGED <<pc, lecturer_preferences, sections, schedules, room_calendar,
                 lecturer_calendar, schedule_result, failed_sections>>

\* delete_dosen: the user document is removed, selected_by lists are left alone
delete_dosen(l) ==
  /\ pc = "select"
  /\ l \in work.users
  /\ work' = [work EXCEPT !.users = @ \ {l}]
  /\ UNCHANGED <<pc, lecturer_preferences, sections, schedules, room_calendar,
                 lecturer_calendar, schedule_result, failed_sections>>

\* --- calculate_sections_needed_hybrid
allowed_indices_per_course(course, users) ==
  LET allowed == {n \in Range(course.selected_by) : n \in users}
  IN IF allowed = {} THEN users ELSE allowed

\* tier 1: per course 1..3 lecturers out of the allowed ones; the search may
\* keep any such assignment as its best individual
Tier1Assignments(courses, users) ==
  {f \in [DOMAIN courses -> (SUBSET users) \ {{}}] :
     \A c \in DOMAIN courses :
        f[c] \subseteq allowed_indices_per_course(courses[c], users)
        /\ Cardinality(f[c]) <= 3}

\* (lecturer, course) pairs in the order of course_to_dosens
dosen_course_pairs(f) ==
  Flatten([c \in DOMAIN f |->
             [k \in 1..Cardinality(f[c]) |-> <<Ascending(f[c])[k], c>>]])

dosen_sks(courses, pairs, ind, l) ==
  SeqSum([i \in DOMAIN pairs |->
            IF pairs[i][1] = l THEN ind[i] * courses[pairs[i][2]].sks ELSE 0])

\* indices of a lecturer's pairs sorted by course sks (sign = 1 ascending,
\* sign = -1 for reverse=True), ties in pair order
sorted_indices(courses, pairs, l, sign) ==
  LET idx == SelectSeq([i \in DOMAIN pairs |-> i], LAMBDA i : pairs[i][1] = l)
  IN Items(SortPairs([k \in DOMAIN idx |->
                        <<sign * courses[pairs[idx[k]][2]].sks, idx[k]>>]))

\* the adjustment without the "< 5" and "> 1" tests on the section count
Adjust_Unbounded(ind, sorted, gap, delta) ==
  IF sorted = <<>> THEN ind ELSE [ind EXCEPT ![sorted[1]] = @ + gap * delta]

\* "for _ in range(gap)": move the first index that can still move by one
RECURSIVE Adjust(_, _, _, _)
Adjust(ind, sorted, gap, delta) ==
  IF gap = 0 THEN ind
  ELSE LET can == SelectSeq(sorted, LAMBDA i : IF delta > 0 THEN ind[i] < 5
                                                 ELSE ind[i] > 1)
       IN IF can = <<>> THEN ind
          ELSE CHOOSE r \in {Adjust(n, sorted, gap - 1, delta) :
                              n \in {[ind EXCEPT ![can[1]] = @ + delta]}} : TRUE

RepairLecturer(courses, pairs, ind, l, total) ==
  IF total = 0 THEN ind
  ELSE IF total < MIN_SKS_PER_DOSEN
  THEN CHOOSE r \in {Adjust(ind, sorted, MIN_SKS_PER_DOSEN - total, 1) :
                      sorted \in {sorted_indices(courses, pairs, l, 1)}} : TRUE
  ELSE IF total > MAX_SKS_PER_DOSEN
  THEN CHOOSE r \in {Adjust(ind, sorted, total - MAX_SKS_PER_DOSEN, -1) :
                      sorted \in {sorted_indices(courses, pairs, l, -1)}} : TRUE
  ELSE ind

\* one pass of the while loop over all lecturers
RECURSIVE RepairPass(_, _, _, _)
RepairPass(courses, pairs, ind, l) ==
  IF l > NumLect THEN ind
  ELSE CHOOSE r \in {RepairPass(courses, pairs, n, l + 1) :
                      n \in {RepairLecturer(courses, pairs, ind, l,
                                            dosen_sks(courses, pairs, ind, l))}} : TRUE

\* the while loop; a pass that changes nothing is repeated unchanged until
\* max_iterations, so the result is the same individual
RECURSIVE RepairLoop(_, _, _, _, _)
RepairLoop(courses, pairs, ind, next, iteration) ==
  IF iteration >= max_iterations \/ next = ind THEN ind
  ELSE RepairLoop(courses, pairs, next, RepairPass(courses, pairs, next, 1),
                  iteration + 1)

repair_solution(courses, pairs, ind) ==
  RepairLoop(courses, pairs, ind, RepairPass(courses, pairs, ind, 1), 0)

\* --- create_initial_sections_hybrid
create_initial_sections_hybrid(courses, pairs, counts) ==
  Flatten([i \in DOMAIN pairs |->
             [k \in 1..counts[i] |->
                [course |-> pairs[i][2], sks |-> courses[pairs[i][2]].sks,
                 is_lab |-> FALSE, is_online |-> FALSE, dosen |-> pairs[i][1]]]])


\* run_ga_section_assignment_hybrid: tier 1 keeps some assignment, tier 2
\* ends with repair_solution applied to the best individual of the search,
\* whose genes lie in 1..5
GenerateHybrid ==
  /\ pc = "select"
  /\ IF work.users = {} \/ work.courses = <<>>
     THEN sections' = <<>>
     ELSE \E f \in Tier1Assignments(work.courses, work.users) :
            \E pairs \in {dosen_course_pairs(f)} :
              \E hof \in [DOMAIN pairs -> 1..5] :
                 sections' = create_initial_sections_hybrid(work.courses, pairs,
                                repair_solution(work.courses, pairs, hof))
  /\ pc' = "generated"
  /\ UNCHANGED <<lecturer_preferences, schedules, room_calendar, lecturer_calendar,
                 schedule_result, failed_sections, work>>

\* --- generate_sections_ga_pipeline / _continue_generate_sections_pipeline
valid_selected(course, users) == SelectSeq(course.selected_by, LAMBDA n : n \in users)

lecturer_selected_courses(courses, users, l) ==
  Cardinality({i \in DOMAIN courses : l \in Range(valid_selected(courses[i], users))})

sections_for_this_lecturer(num_courses_of_lecturer, sks) ==
  IF num_courses_of_lecturer = 1
  THEN (IF sks = 3 THEN 3 ELSE IF sks = 2 THEN 4 ELSE 9)
  ELSE IF num_courses_of_lecturer = 2
  THEN (IF sks = 3 THEN 2 ELSE IF sks = 2 THEN 2 ELSE 5)
  ELSE (IF sks = 3 THEN 1 ELSE IF sks = 2 THEN 2 ELSE 3)

PipelineSections(courses, users) ==
  Flatten([c \in DOMAIN courses |->
    Flatten([k \in DOMAIN valid_selected(courses[c], users) |->
      [j \in 1..sections_for_this_lecturer(
                  lecturer_selected_courses(courses, users,
                                            valid_selected(courses[c], users)[k]),
                  courses[c].sks) |->
         [course |-> c, sks |-> courses[c].sks, is_lab |-> FALSE,
          is_online |-> FALSE, dosen |-> valid_selected(courses[c], users)[k]]]])])

\* without lecturers or courses the pipeline flashes "Data dosen atau mata
\* kuliah kosong." and returns; otherwise it ends with the success flash
GeneratePipeline ==
  /\ pc = "select"
  /\ sections' = IF work.users = {} \/ work.courses = <<>> THEN sections
                 ELSE PipelineSections(work.courses, work.users)
  /\ pc' = IF work.users = {} \/ work.courses = <<>> THEN "aborted" ELSE "generated"
  /\ UNCHANGED <<lecturer_preferences, schedules, room_calendar, lecturer_calendar,
                 schedule_result, failed_sections, work>>

InitGen ==
  /\ \E n \in 1..MaxCourses :
       \E sks \in [1..n -> 1..3] :
          work = [courses |-> [c \in 1..n |-> [sks |-> sks[c], selected_by |-> <<>>]],
                  users |-> Lecturers]
  /\ sections = <<>>
  /\ lecturer_preferences = [l \in Lecturers |-> NoPrefs]
  /\ schedules = <<>>
  /\ room_calendar = {}
  /\ lecturer_calendar = {}
  /\ schedule_result = <<>>
  /\ failed_sections = <<>>
  /\ pc = "select"

NextGen ==
  \/ \E l \in Lecturers : \E c \in DOMAIN work.courses : choose_course(l, c)
  \/ \E l \in Lecturers : delete_dosen(l)
  \/ GenerateHybrid
  \/ GeneratePipeline

SpecGen == InitGen /\ [][NextGen]_vars

total_sks(l) ==
  SeqSum([i \in DOMAIN sections |-> IF sections[i].dosen = l THEN sections[i].sks ELSE 0])

\* C7: after the section generator has run, every lecturer holding at least
\* one section has a total credit load between 8 and 12.
C7_LoadBand ==
  pc = "generated" =>
    \A l \in Lecturers :
       total_sks(l) > 0 =>
         (MIN_SKS_PER_DOSEN <= total_sks(l) /\ total_sks(l) <= MAX_SKS_PER_DOSEN)

\* C8: the section generator creates no section for a lecturer on a course
\* whose selected_by list is non-empty and does not contain that lecturer.
C8_SelectedByRespected ==
  pc = "generated" =>
    \A i \in DOMAIN sections :
       work.courses[sections[i].course].selected_by # <<>> =>
         sections[i].dosen \in Range(work.courses[sections[i].course].selected_by)


\* -------------------------------------------------------------------------
\* Repair engine: _reschedule_lecturer_classes_v2
\* A request is [lecturer, unavailable_days, time_type, specific_time,
\* start_time, end_time]; the local state of a run is a record L with the
\* request, the approved blocks, affected, lect_sched, room_occ, moved, failed.
\* -------------------------------------------------------------------------
MaxRepairDocs == 3

in_block(req, s, e) ==
  IF req.time_type = "specific"
  THEN s - req.specific_time <= 10 /\ req.specific_time - s <= 10
  ELSE IF req.time_type = "range"
  THEN s < req.end_time /\ e > req.start_time
  ELSE TRUE

allow_day_change(req) ==
  Len(req.unavailable_days) = 1 \/ req.time_type \in {"specific", "range"}

\* raw, filtered by in_block: the lecturer's documents of the source days, in
\* source-day order and collection order
affected_of(req) ==
  Flatten([k \in DOMAIN req.unavailable_days |->
    LET ids == SelectSeq([i \in DOMAIN schedules |-> i], LAMBDA i :
                  /\ schedules[i].dosen = req.lecturer
                  /\ schedules[i].day = req.unavailable_days[k]
                  /\ in_block(req, schedules[i].start, schedules[i].end))
    IN [j \in DOMAIN ids |->
          [id |-> ids[j], day |-> schedules[ids[j]].day,
           start |-> schedules[ids[j]].start, end |-> schedules[ids[j]].end,
           room |-> schedules[ids[j]].room]]])

is_in_approved_block(blocks, day, slot_start, slot_end) ==
  \E b \in blocks :
     /\ day \in b.days
     /\ \/ b.time_type = "full_day"
        \/ b.time_type = "specific" /\ slot_start - b.specific_time <= 10
                                    /\ b.specific_time - slot_start <= 10
        \/ b.time_type = "range"
           /\ times_overlap(slot_start, slot_end, b.start_time, b.end_time)

target_days(req, blocks, available_days_pref) ==
  LET excluded_days == Range(req.unavailable_days)
                       \cup UNION {b.days : b \in {x \in blocks : x.time_type = "full_day"}}
      all == SelectSeq(weekday_order, LAMBDA d : d \notin excluded_days)
      pref == SelectSeq(all, LAMBDA d : d \in available_days_pref)
      chosen == IF available_days_pref = {} THEN all
                ELSE IF pref # <<>> THEN pref
                ELSE SelectSeq(weekday_order, LAMBDA d : d \in available_days_pref
                                                        /\ d \notin excluded_days)
  IN IF ~allow_day_change(req) \/ chosen = <<>> THEN req.unavailable_days ELSE chosen

preferred_days(req, oday, tdays) ==
  IF allow_day_change(req) THEN <<oday>> \o SelectSeq(tdays, LAMBDA d : d # oday)
  ELSE <<oday>>

max_end_time == T(17, 30)

overlaps_lunch(day, cs, ce) ==
  /\ day # Jumat
  /\ cs < T(14, 0)
  /\ times_overlap(cs, ce, T(13, 0), T(14, 0))

\* range(t2m('08:00'), end_limit - duration + 1, 50)
generate_candidates(duration) ==
  IF T(8, 0) + duration > max_end_time THEN <<>>
  ELSE [k \in 1..((max_end_time - duration - T(8, 0)) \div 50 + 1) |->
          <<T(8, 0) + 50 * (k - 1), T(8, 0) + 50 * (k - 1) + duration>>]

\* ignore_id = 0 stands for None
conflicts(lect_sched, room_occ, day, s, e, room, ignore_id) ==
  IF \E slot \in lect_sched :
        slot.day = day /\ slot.id # ignore_id
        /\ times_overlap(s, e, slot.start, slot.end)
  THEN "lecturer"
  ELSE IF \E k \in room_occ :
             k[1] = day /\ k[2] = room /\ times_overlap(s, e, k[3], k[4])
  THEN "room" ELSE "none"

room_pool(room) ==
  IF room = ONLINE THEN <<ONLINE>>
  ELSE IF room \in Range(LAB_ROOMS) THEN LAB_ROOMS ELSE NON_LAB_ROOMS

rooms_to_try(room) == <<room>> \o SelectSeq(room_pool(room), LAMBDA r : r # room)

\* "for day in preferred_days: for (cs, ce) in cand_times"
RepairSlots(pdays, cand_times) ==
  Flatten([i \in DOMAIN pdays |->
             [j \in DOMAIN cand_times |->
                [day |-> pdays[i], start |-> cand_times[j][1],
                 end |-> cand_times[j][2]]]])

\* the filters applied to a candidate before the conflict check: block window
\* on a source day, lunch break, approved blocks, unavailable_time_ranges
SlotAllowed(L, prefs, cls, c) ==
  /\ ~(c.day \in Range(L.req.unavailable_days) /\ in_block(L.req, c.start, c.end))
  /\ ~overlaps_lunch(c.day, c.start, c.end)
  /\ ~is_in_approved_block(L.approved_blocks, c.day, c.start, c.end)
  /\ ~(cls.room # ONLINE /\ UnavailableHit(prefs, c.day, c.start, c.end))

pref_score(req, prefs, cls, day, cs, ce) ==
  LET day_ok == prefs.available_days # {} /\ day \in prefs.available_days
      is_reschedule_from_block ==
        /\ req.time_type = "range"
        /\ cls.day \in Range(req.unavailable_days)
        /\ times_overlap(cls.start, cls.end, req.start_time, req.end_time)
  IN IF is_reschedule_from_block THEN (IF day_ok THEN 70 ELSE 40)
     ELSE IF DayHasPreferred(prefs, day)
     THEN (IF InPreferred(prefs, day, cs, ce) THEN 100
           ELSE IF day_ok THEN 60 ELSE 50)
     ELSE (IF day_ok THEN 75 ELSE 50)

FirstFreeRoom(L, c, try) ==
  FirstOrNone(SelectSeq(try, LAMBDA r :
     conflicts(L.lect_sched, L.room_occ, c.day, c.start, c.end, r, 0) = "none"))

\* valid_candidates after the sort by (-score, start)
valid_candidates(L, prefs, cls, slots) ==
  LET ok == SelectSeq(slots, LAMBDA c :
              SlotAllowed(L, prefs, cls, c)
              /\ FirstFreeRoom(L, c, rooms_to_try(cls.room)).ok) \o <<>>
      cands == [i \in DOMAIN ok |->
                  [day |-> ok[i].day, start |-> ok[i].start, end |-> ok[i].end,
                   room |-> FirstFreeRoom(L, ok[i], rooms_to_try(cls.room)).slot,
                   score |-> pref_score(L.req, prefs, cls, ok[i].day,
                                        ok[i].start, ok[i].end)]] \o <<>>
  IN Items(SortPairs([i \in DOMAIN cands |->
                        <<(0 - cands[i].score) * 10000 + cands[i].start, cands[i]>>]))


\* --- swap tier
Blockers(L, c) ==
  {slot \in L.lect_sched :
     slot.day = c.day /\ times_overlap(c.start, c.end, slot.start, slot.end)}

BlockerUnaffected(L, b) ==
  ~\E i \in DOMAIN L.all_affected :
      /\ L.all_affected[i].id = b.id
      /\ times_overlap(b.start, b.end, L.all_affected[i].start, L.all_affected[i].end)

\* new times of the blocker on the same day, in its own room
blocker_candidates(L, c, b, b_room) ==
  SelectSeq(generate_candidates(b.end - b.start), LAMBDA t :
    /\ ~(t[1] = c.start /\ t[2] = c.end)
    /\ ~(c.day \in Range(L.req.unavailable_days) /\ in_block(L.req, t[1], t[2]))
    /\ ~is_in_approved_block(L.approved_blocks, c.day, t[1], t[2])
    /\ conflicts(L.lect_sched, L.room_occ, c.day, t[1], t[2], b_room, b.id) = "none")

BlockerMove(L, c, b) ==
  IF BlockerUnaffected(L, b)
  THEN FirstOrNone(blocker_candidates(L, c, b, schedules[b.id].room))
  ELSE [ok |-> FALSE]

SwapOption(L, prefs, cls, c) ==
  IF /\ SlotAllowed(L, prefs, cls, c)
     /\ conflicts(L.lect_sched, L.room_occ, c.day, c.start, c.end, cls.room, 0)
          = "lecturer"
     /\ Cardinality(Blockers(L, c)) = 1
  THEN BlockerMove(L, c, CHOOSE b \in Blockers(L, c) : TRUE)
  ELSE [ok |-> FALSE]

SwapChoice(L, c, b, t) == [ok |-> TRUE, c |-> c, b |-> b, bs |-> t[1], be |-> t[2]]

\* first candidate of the swap loops for which the blocker can be relocated
FirstSwap(L, prefs, cls, slots) ==
  LET ok == SelectSeq(slots, LAMBDA c : SwapOption(L, prefs, cls, c).ok) \o <<>>
  IN IF ok = <<>> THEN [ok |-> FALSE]
     ELSE SwapChoice(L, ok[1], CHOOSE b \in Blockers(L, ok[1]) : TRUE,
                     SwapOption(L, prefs, cls, ok[1]).slot)

\* --- bookkeeping of one processed class
Slot(day, start, end, id, room) ==
  [day |-> day, start |-> start, end |-> end, id |-> id, room |-> room]

\* simple tier: the class moves to the best candidate
MovedLocal(L, cls, best) ==
  [L EXCEPT
     !.lect_sched = {x \in @ : ~(x.day = cls.day /\ x.id = cls.id)}
                    \cup {Slot(best.day, best.start, best.end, cls.id, best.room)},
     !.room_occ = (@ \ {<<cls.day, cls.room, cls.start, cls.end>>})
                  \cup {<<best.day, best.room, best.start, best.end>>},
     !.moved = @ + 1,
     !.affected = Tail(@)]

MovedDocs(docs, cls, best) ==
  [docs EXCEPT ![cls.id] = [@ EXCEPT !.day = best.day, !.start = best.start,
                                     !.end = best.end, !.room = best.room]]

\* swap tier: the blocker gets new times in its room, the class takes the
\* candidate slot in its original room
SwappedLocal(L, cls, sw, b_room) ==
  [L EXCEPT
     !.lect_sched =
        {x \in ({x \in @ : ~(x.day = sw.c.day /\ x.id = sw.b.id)}
                 \cup {Slot(sw.c.day, sw.bs, sw.be, sw.b.id, b_room)}) :
            ~(x.day = cls.day /\ x.id = cls.id)}
        \cup {Slot(sw.c.day, sw.c.start, sw.c.end, cls.id, cls.room)},
     !.room_occ =
        ((((@ \ {<<sw.c.day, b_room, sw.b.start, sw.b.end>>})
            \cup {<<sw.c.day, b_room, sw.bs, sw.be>>})
           \ {<<cls.day, cls.room, cls.start, cls.end>>})
          \cup {<<sw.c.day, cls.room, sw.c.start, sw.c.end>>}),
     !.moved = @ + 1,
     !.affected = Tail(@)]

SwappedDocs(docs, cls, sw) ==
  [docs EXCEPT ![sw.b.id] = [@ EXCEPT !.start = sw.bs, !.end = sw.be],
               ![cls.id] = [@ EXCEPT !.day = sw.c.day, !.start = sw.c.start,
                                     !.end = sw.c.end]]

FailedLocal(L, cls) ==
  [L EXCEPT !.failed = Append(@, cls.id), !.affected = Tail(@)]

RepairPc(L) == IF L.affected = <<>> THEN "done" ELSE "loop"

\* the reads at the start of a run: affected, lect_sched, room_occ
RepairStart(p) ==
  /\ pc[p] = "start"
  /\ \E aff \in {affected_of(work[p].req)} :
       /\ work' = [work EXCEPT ![p] =
            [@ EXCEPT
               !.affected = aff,
               !.all_affected = aff,
               !.lect_sched =
                  IF aff = <<>> THEN {}
                  ELSE {Slot(schedules[i].day, schedules[i].start, schedules[i].end,
                             i, schedules[i].room) :
                          i \in {j \in DOMAIN schedules :
                                   schedules[j].dosen = work[p].req.lecturer}},
               !.room_occ =
                  IF aff = <<>> THEN {}
                  ELSE {<<schedules[i].day, schedules[i].room, schedules[i].start,
                          schedules[i].end>> : i \in DOMAIN schedules}]]
       /\ pc' = [pc EXCEPT ![p] = IF aff = <<>> THEN "done" ELSE "loop"]
  /\ UNCHANGED <<lecturer_preferences, sections, schedules, room_calendar,
                 lecturer_calendar, schedule_result, failed_sections>>

RepairApply(p, L, docs) ==
  /\ work' = [work EXCEPT ![p] = L]
  /\ schedules' = docs
  /\ pc' = [pc EXCEPT ![p] = RepairPc(L)]

RepairSwapOrFail(p, L, prefs, cls, sw) ==
  IF sw.ok
  THEN RepairApply(p, SwappedLocal(L, cls, sw, schedules[sw.b.id].room),
                   SwappedDocs(schedules, cls, sw))
  ELSE RepairApply(p, FailedLocal(L, cls), schedules)

RepairPlace(p, L, prefs, cls, slots, vc) ==
  IF vc # <<>>
  THEN RepairApply(p, MovedLocal(L, cls, vc[1]), MovedDocs(schedules, cls, vc[1]))
  ELSE RepairSwapOrFail(p, L, prefs, cls, FirstSwap(L, prefs, cls, slots))

RepairSearch(p, L, prefs, cls, slots) ==
  RepairPlace(p, L, prefs, cls, slots, valid_candidates(L, prefs, cls, slots))

\* one iteration of "for cls in affected"
RepairClass(p) ==
  /\ pc[p] = "loop"
  /\ RepairSearch(p, work[p], lecturer_preferences[work[p].req.lecturer],
                  Head(work[p].affected),
                  RepairSlots(
                    preferred_days(work[p].req, Head(work[p].affected).day,
                       target_days(work[p].req, work[p].approved_blocks,
                          lecturer_preferences[work[p].req.lecturer].available_days)),
                    generate_candidates(Head(work[p].affected).end
                                        - Head(work[p].affected).start)))
  /\ UNCHANGED <<lecturer_preferences, sections, room_calendar, lecturer_calendar,
                 schedule_result, failed_sections>>


\* --- inputs of the repair engine
RepairPlacements ==
  { [day |-> Senin, room |-> NON_LAB_ROOMS[1], start |-> T(8, 0), end |-> T(10, 30)],
    [day |-> Senin, room |-> LAB_ROOMS[1], start |-> T(14, 0), end |-> T(15, 40)],
    [day |-> Senin, room |-> NON_LAB_ROOMS[1], start |-> T(14, 0), end |-> T(16, 30)],
    [day |-> Selasa, room |-> NON_LAB_ROOMS[1], start |-> T(8, 0), end |-> T(10, 30)] }

RepairDocs(n) ==
  {[i \in 1..n |-> [id |-> i, dosen |-> f[i][1], day |-> f[i][2].day,
                    room |-> f[i][2].room, start |-> f[i][2].start,
                    end |-> f[i][2].end]] :
     f \in [1..n -> Lecturers \X RepairPlacements]}

\* conflict-free timetables of up to MaxRepairDocs placements
RepairTimetables ==
  {d \in UNION {RepairDocs(n) : n \in 1..MaxRepairDocs} :
     NoRoomOverlap(d) /\ NoLecturerOverlap(d)}

Request(l, days, time_type, specific_time, start_time, end_time) ==
  [lecturer |-> l, unavailable_days |-> days, time_type |-> time_type,
   specific_time |-> specific_time, start_time |-> start_time,
   end_time |-> end_time]

RepairRequests(l) ==
  { Request(l, <<Senin>>, "range", 0, T(8, 0), T(12, 0)),
    Request(l, <<Senin>>, "all", 0, 0, 0),
    Request(l, <<Senin, Selasa>>, "all", 0, 0, 0),
    Request(l, <<Senin>>, "specific", T(8, 0), 0, 0),
    Request(l, <<Senin>>, "specific", T(9, 0), 0, 0) }

\* the approved reports of the lecturer as the engine reads them.  A report
\* in the single-window format carries unavailable_days and
\* unavailable_time_type; a report written by dosen_request_reschedule
\* carries only "entries", so block.get('unavailable_days') finds no day and
\* the time type defaults to 'full_day'
ApprovedBlocks ==
  { {},
    {[days |-> {Jumat}, time_type |-> "full_day", specific_time |-> 0,
      start_time |-> 0, end_time |-> 0, entries |-> <<>>]},
    {[days |-> {}, time_type |-> "full_day", specific_time |-> 0,
      start_time |-> 0, end_time |-> 0,
      entries |-> <<[day |-> Selasa, time_type |-> "all", specific_time |-> 0,
                     start_time |-> 0, end_time |-> 0]>>]} }

\* preferences of the lecturer whose classes are repaired
RepairPrefs ==
  PrefProfiles \cup {[available_days |-> {Senin}, unavailable_time_ranges |-> {},
                       preferred_times |-> {}],
                      [available_days |-> {Senin},
                       unavailable_time_ranges |-> {<<Senin, T(12, 0), T(13, 0)>>},
                       preferred_times |-> {}]}

RepairLocal(req, blocks) ==
  [req |-> req, approved_blocks |-> blocks, affected |-> <<>>,
   all_affected |-> <<>>, lect_sched |-> {}, room_occ |-> {}, moved |-> 0,
   failed |-> <<>>]

InitRepair ==
  /\ lecturer_preferences \in
       {f \in [Lecturers -> RepairPrefs] : \A l \in Lecturers : l > 1 => f[l] = NoPrefs}
  /\ schedules \in RepairTimetables
  /\ \E req \in RepairRequests(1) : \E blocks \in ApprovedBlocks :
        work = <<RepairLocal(req, blocks)>>
  /\ pc = <<"start">>
  /\ sections = <<>>
  /\ room_calendar = {}
  /\ lecturer_calendar = {}
  /\ schedule_result = <<>>
  /\ failed_sections = <<>>

NextRepair == RepairStart(1) \/ RepairClass(1)

SpecRepair == InitRepair /\ [][NextRepair]_vars

\* C2: after a repair run with swap enabled on a conflict-free timetable,
\* every affected section is either moved to a slot that overlaps no other
\* placement of its lecturer and no other placement in its physical room on
\* that day, or listed in failed with its placement unchanged, and
\* moved + failed equals the number of affected sections.
C2_RepairMovedOrFailed ==
  pc[1] = "done" =>
    /\ work[1].moved + Len(work[1].failed) = Len(work[1].all_affected)
    /\ \A i \in DOMAIN work[1].all_affected :
         LET a == work[1].all_affected[i]
             d == schedules[a.id]
         IN IF a.id \in Range(work[1].failed)
            THEN d.day = a.day /\ d.room = a.room /\ d.start = a.start /\ d.end = a.end
            ELSE \A j \in DOMAIN schedules \ {a.id} :
                   (schedules[j].day = d.day
                    /\ times_overlap(d.start, d.end, schedules[j].start, schedules[j].end))
                   => /\ schedules[j].dosen # d.dosen
                      /\ ~(schedules[j].room = d.room /\ d.room # ONLINE)

\* --- two repair runs for two different lecturers
InitConc ==
  /\ lecturer_preferences \in
       {f \in [Lecturers -> PrefProfiles] : \A l \in Lecturers : l > 1 => f[l] = NoPrefs}
  /\ schedules \in RepairTimetables
  /\ \E r1 \in RepairRequests(1) : \E r2 \in RepairRequests(2) :
        /\ r1.time_type \in {"range", "all"} /\ Len(r1.unavailable_days) = 1
        /\ r2.time_type \in {"range", "all"} /\ Len(r2.unavailable_days) = 1
        /\ work = <<RepairLocal(r1, {}), RepairLocal(r2, {})>>
  /\ pc = <<"start", "start">>
  /\ sections = <<>>
  /\ room_calendar = {}
  /\ lecturer_calendar = {}
  /\ schedule_result = <<>>
  /\ failed_sections = <<>>

NextConc == \E p \in 1..2 : RepairStart(p) \/ RepairClass(p)

SpecConc == InitConc /\ [][NextConc]_vars

\* C5: two repair runs for two different lecturers, interleaved in any way,
\* leave no two placements overlapping in one physical room on one day.
C5_ConcurrentRepairNoRoomOverlap ==
  (\A p \in DOMAIN pc : pc[p] = "done") => NoRoomOverlap(schedules)


\* ================================================ targeted add of sections
\* schedule_new_sections_only in its writing mode (sections_to_schedule is
\* None).  A document of the timetable carries the index of the new section
\* it belongs to in `sec` (0 for the sections scheduled before the call);
\* section labels are taken to be unique.
MaxNewSections == 2
MaxAddDocs == 3

\* check_preference_constraints: <<allowed, score>>
check_preference_constraints(lect, day, s, e, is_online) ==
  LET prefs == lecturer_preferences[lect]
      on_day == prefs.available_days # {} /\ day \in prefs.available_days
  IN IF (~is_online) /\ UnavailableHit(prefs, day, s, e) THEN <<FALSE, 0>>
     ELSE IF on_day /\ DayHasPreferred(prefs, day)
          THEN <<TRUE, IF InPreferred(prefs, day, s, e) THEN 100 ELSE 60>>
          ELSE <<TRUE, IF on_day THEN 75 ELSE 50>>

\* first tier: for day / for room in suitable_rooms / for tb of the day
AddSlots(sec) ==
  IF sec.is_online THEN SlotsOfDays(weekday_order, <<ONLINE>>, sec.sks)
  ELSE Slots(Days, Range(suitable_rooms(sec.is_lab)), sec.sks)

\* later tiers: for day / for room / for tb in timeblocks, where timeblocks
\* still holds the blocks of the last day of the first loop (Jumat)
FallbackSlots(sec) ==
  LET rs == IF sec.is_online THEN <<ONLINE>> ELSE suitable_rooms(sec.is_lab)
      tbs == get_timeblocks_for_day(Jumat, sec.sks)
      n == Len(rs)
      b == Len(tbs)
  IN [k \in 1..(Len(weekday_order) * n * b) |->
        [day |-> weekday_order[((k - 1) \div (n * b)) + 1],
         room |-> rs[(((k - 1) \div b) % n) + 1],
         start |-> tbs[((k - 1) % b) + 1][1],
         end |-> tbs[((k - 1) % b) + 1][2]]] \o <<>>

\* hard preference, room_conflict, lect_conflict and batch_conflict of a slot
AddFree(sec, rc, lc, batch, c) ==
  /\ check_preference_constraints(sec.dosen, c.day, c.start, c.end, sec.is_online)[1]
  /\ (c.room = ONLINE \/ ~RoomBusy(rc, c.day, c.room, c.start, c.end))
  /\ ~LectBusy(lc, sec.dosen, c.day, c.start, c.end)
  /\ ~LectBusy(batch, sec.dosen, c.day, c.start, c.end)

\* try_smart_swap: the first existing schedule (of the list read at the start
\* of the call) that has an alternative slot and whose slot fits the new
\* section; the alternative is searched in the rooms of the NEW section's kind
\* with the existing section's own slot counted as free
try_smart_swap(sec, existing, rc, lc) ==
  LET alts(x) ==
        SelectSeq(Slots(Days, Range(suitable_rooms(sec.is_lab)), x.sks), LAMBDA a :
          /\ check_preference_constraints(x.dosen, a.day, a.start, a.end, FALSE)[1]
          /\ ~RoomBusy(rc \ {<<x.day, x.room, x.start, x.end>>},
                       a.day, a.room, a.start, a.end)
          /\ ~LectBusy(lc \ {<<x.dosen, x.day, x.start, x.end>>},
                       x.dosen, a.day, a.start, a.end))
      fits(x) ==
        /\ check_preference_constraints(sec.dosen, x.day, x.start, x.end, sec.is_online)[1]
        /\ (sec.is_online <=> x.room = ONLINE)
      I == {i \in DOMAIN existing : fits(existing[i]) /\ alts(existing[i]) # <<>>}
  IN IF I = {} THEN [tier |-> 0]
     ELSE LET i == CHOOSE i \in I : \A j \in I : i <= j
          IN [tier |-> 4, x |-> existing[i], alt |-> alts(existing[i])[1]]

\* the placement tiers of one new section
PlaceNew(sec, existing, rc, lc, batch) ==
  LET prefs == lecturer_preferences[sec.dosen]
      score(c) == check_preference_constraints(sec.dosen, c.day, c.start, c.end,
                                               sec.is_online)[2]
      valid == SelectSeq(AddSlots(sec), LAMBDA c : AddFree(sec, rc, lc, batch, c))
      best == CHOOSE i \in DOMAIN valid : \A j \in DOMAIN valid :
                \/ score(valid[j]) < score(valid[i])
                \/ score(valid[j]) = score(valid[i]) /\ i <= j
      fallback == SelectSeq(FallbackSlots(sec), LAMBDA c : AddFree(sec, rc, lc, batch, c))
      tahap3 == SelectSeq(FallbackSlots(sec), LAMBDA c :
                  /\ AddFree(sec, rc, lc, {}, c)
                  /\ (prefs.preferred_times # {}
                        => InPreferred(prefs, c.day, c.start, c.end)))
  IN IF valid # <<>> THEN [tier |-> 1, slot |-> valid[best]]
     ELSE IF fallback # <<>> THEN [tier |-> 2, slot |-> fallback[1]]
     ELSE IF tahap3 # <<>> THEN [tier |-> 3, slot |-> tahap3[1]]
     ELSE try_smart_swap(sec, existing, rc, lc)


\* one iteration of "for section_idx, section in enumerate(new_sections)"
AddSection ==
  /\ pc = "place"
  /\ \E sec \in {sections[work.idx]} :
     \E r \in {PlaceNew(sec, work.existing_schedules, room_calendar,
                        lecturer_calendar, work.new_batch_schedules)} :
     \E at \in {IF r.tier = 0 THEN [day |-> 0]
                ELSE IF r.tier = 4 THEN r.x ELSE r.slot} :
     \E doc \in {IF r.tier = 0 THEN [id |-> 0]
                 ELSE [id |-> Len(schedules) + 1, sec |-> work.idx,
                       dosen |-> sec.dosen, sks |-> sec.sks, day |-> at.day,
                       room |-> at.room, start |-> at.start, end |-> at.end]} :
       IF r.tier = 0
       THEN \* no slot and no swap: the exception leaves the loop
            /\ pc' = "raised"
            /\ UNCHANGED <<schedules, room_calendar, lecturer_calendar, work>>
       ELSE
         /\ schedules' =
              IF r.tier = 4
              THEN [k \in DOMAIN schedules |->
                      IF schedules[k].id = r.x.id
                      THEN [schedules[k] EXCEPT !.day = r.alt.day, !.room = r.alt.room,
                                                !.start = r.alt.start, !.end = r.alt.end]
                      ELSE schedules[k]] \o <<doc>>
              ELSE Append(schedules, doc)
         /\ room_calendar' =
              room_calendar
                \cup (IF at.room = ONLINE THEN {}
                      ELSE {<<at.day, at.room, at.start, at.end>>})
                \cup (IF r.tier = 4
                      THEN {<<r.alt.day, r.alt.room, r.alt.start, r.alt.end>>} ELSE {})
         /\ lecturer_calendar' =
              IF r.tier = 4 THEN lecturer_calendar
              ELSE lecturer_calendar \cup {<<sec.dosen, at.day, at.start, at.end>>}
         /\ work' = [work EXCEPT
              !.idx = @ + 1,
              !.new_batch_schedules =
                 IF r.tier \in {1, 2}
                 THEN @ \cup {<<sec.dosen, at.day, at.start, at.end>>} ELSE @,
              !.swapped_sections = IF r.tier = 4 THEN @ \cup {r.x.id} ELSE @]
         /\ pc' = IF work.idx = Len(sections) THEN "validate" ELSE "place"
  /\ UNCHANGED <<lecturer_preferences, sections, schedule_result, failed_sections>>

\* newly_scheduled: the slot of every new section as found in the collection
newly_scheduled(docs) ==
  [i \in DOMAIN sections |->
     LET d == docs[CHOOSE k \in DOMAIN docs : docs[k].sec = i]
     IN [dosen |-> sections[i].dosen, day |-> d.day, room |-> d.room,
         start |-> d.start, end |-> d.end]]

\* bentrok_dosen (by_room = FALSE) and bentrok_ruangan (by_room = TRUE):
\* <<section1, section2>> in list order, section2 = 0 for a section scheduled
\* before the call; the sections moved by a swap are skipped
bentrok(ns, existing, swapped, by_room) ==
  LET n == Len(ns)
      m == Len(existing)
      clash(a, b) ==
        /\ a.day = b.day /\ times_overlap(a.start, a.end, b.start, b.end)
        /\ IF by_room THEN a.room = b.room /\ a.room # ONLINE ELSE a.dosen = b.dosen
      pairs == [k \in 1..(n * n) |-> <<((k - 1) \div n) + 1, ((k - 1) % n) + 1>>] \o <<>>
      cross == [k \in 1..(n * m) |-> <<((k - 1) \div m) + 1, ((k - 1) % m) + 1>>] \o <<>>
      old == SelectSeq(cross, LAMBDA q : /\ existing[q[2]].id \notin swapped
                                         /\ clash(ns[q[1]], existing[q[2]]))
  IN SelectSeq(pairs, LAMBDA p : p[1] < p[2] /\ clash(ns[p[1]], ns[p[2]]))
       \o [k \in DOMAIN old |-> <<old[k][1], 0>>]

\* try_reschedule_section: the first slot without conflict for new section i
try_reschedule_section(i, ns, existing) ==
  LET sec == sections[i]
      room_seq == IF sec.is_online THEN <<ONLINE>>
                  ELSE suitable_rooms(sec.is_lab) \o suitable_rooms(~sec.is_lab)
      avail == lecturer_preferences[sec.dosen].available_days
      order == SelectSeq(weekday_order, LAMBDA d : d \in avail)
                 \o SelectSeq(weekday_order, LAMBDA d : d \notin avail)
      day_priority == SelectSeq(order, LAMBDA d : d # ns[i].day) \o <<ns[i].day>>
      clash(c, o) ==
        /\ o.day = c.day /\ times_overlap(c.start, c.end, o.start, o.end)
        /\ (o.dosen = sec.dosen \/ (c.room # ONLINE /\ o.room = c.room))
      has_conflict(c) ==
        \/ ~check_preference_constraints(sec.dosen, c.day, c.start, c.end,
                                         sec.is_online)[1]
        \/ \E k \in DOMAIN existing : clash(c, existing[k])
        \/ \E j \in DOMAIN ns : j # i /\ clash(c, ns[j])
  IN FirstOrNone(SelectSeq(SlotsOfDays(day_priority, room_seq, sec.sks),
                           LAMBDA c : ~has_conflict(c)))

\* the resolution loop over bentrok_dosen: section1 is tried first, then
\* section2 when it is a new section
RECURSIVE Resolve(_, _, _)
Resolve(details, existing, st) ==
  IF details = <<>> THEN st
  ELSE LET d == Head(details)
           r1 == try_reschedule_section(d[1], st.ns, existing)
           r2 == IF d[2] = 0 THEN [ok |-> FALSE]
                 ELSE try_reschedule_section(d[2], st.ns, existing)
           moved(i, f) == [st EXCEPT !.ns[i] =
                             [@ EXCEPT !.day = f.slot.day, !.room = f.slot.room,
                                       !.start = f.slot.start, !.end = f.slot.end]]
       IN Resolve(Tail(details), existing,
                  IF r1.ok THEN moved(d[1], r1)
                  ELSE IF r2.ok THEN moved(d[2], r2)
                  ELSE [st EXCEPT !.unresolved = TRUE])

\* the validation after the loop: conflicts are listed, lecturer conflicts
\* are resolved by moving new sections, and what is left raises
AddValidate ==
  /\ pc = "validate"
  /\ \E ns \in {newly_scheduled(schedules)} :
     \E st \in {Resolve(bentrok(ns, work.existing_schedules,
                                work.swapped_sections, FALSE),
                        work.existing_schedules,
                        [ns |-> ns, unresolved |-> FALSE])} :
     \E raised \in {st.unresolved
                      \/ bentrok(ns, work.existing_schedules,
                                 work.swapped_sections, TRUE) # <<>>} :
       /\ schedules' =
            [k \in DOMAIN schedules |->
               IF schedules[k].sec = 0 THEN schedules[k]
               ELSE [schedules[k] EXCEPT !.day = st.ns[schedules[k].sec].day,
                                         !.room = st.ns[schedules[k].sec].room,
                                         !.start = st.ns[schedules[k].sec].start,
                                         !.end = st.ns[schedules[k].sec].end]]
       /\ pc' = IF raised THEN "raised" ELSE "returned"
       /\ sections' = IF raised THEN <<>> ELSE sections
  /\ UNCHANGED <<lecturer_preferences, room_calendar, lecturer_calendar,
                 schedule_result, failed_sections, work>>


\* conflict-free timetables of up to MaxAddDocs sections scheduled earlier
AddTimetables ==
  LET placements ==
        { [day |-> Senin, room |-> NON_LAB_ROOMS[1], start |-> T(8, 0),
           end |-> T(8, 50), sks |-> 1],
          [day |-> Senin, room |-> NON_LAB_ROOMS[1], start |-> T(8, 50),
           end |-> T(9, 40), sks |-> 1],
          [day |-> Senin, room |-> LAB_ROOMS[1], start |-> T(8, 0),
           end |-> T(8, 50), sks |-> 1],
          [day |-> Selasa, room |-> NON_LAB_ROOMS[1], start |-> T(8, 0),
           end |-> T(10, 30), sks |-> 3],
          [day |-> Rabu, room |-> ONLINE, start |-> T(9, 0), end |-> T(9, 50),
           sks |-> 1] }
      docs(n) ==
        {[i \in 1..n |-> [id |-> i, sec |-> 0, dosen |-> f[i][1], sks |-> f[i][2].sks,
                          day |-> f[i][2].day, room |-> f[i][2].room,
                          start |-> f[i][2].start, end |-> f[i][2].end]] :
           f \in [1..n -> Lecturers \X placements]}
  IN {d \in UNION {docs(n) : n \in 0..MaxAddDocs} :
        NoRoomOverlap(d) /\ NoLecturerOverlap(d)}

\* the call made by the add-section form: 1..MaxNewSections new sections of
\* one course for one lecturer, on a committed conflict-free timetable
InitAdd ==
  /\ lecturer_preferences \in
       {f \in [Lecturers ->
                 PrefProfiles \cup
                 { [available_days |-> {},
                    unavailable_time_ranges |-> {<<0, T(9, 40), T(18, 0)>>},
                    preferred_times |-> {}],
                   [available_days |-> {},
                    unavailable_time_ranges |->
                      {<<Senin, T(9, 40), T(18, 0)>>} \cup
                      {<<d, T(7, 0), T(18, 0)>> : d \in Days \ {Senin}},
                    preferred_times |-> {}] }] :
          \A l \in Lecturers : l > 1 => f[l] = NoPrefs}
  /\ schedules \in AddTimetables
  /\ \E k \in SectionKinds \cup {[sks |-> 1, is_lab |-> FALSE, is_online |-> FALSE,
                                  dosen |-> l] : l \in Lecturers} :
        \E n \in 1..MaxNewSections : sections = [i \in 1..n |-> k]
  /\ room_calendar = {<<schedules[k].day, schedules[k].room, schedules[k].start,
                        schedules[k].end>> :
                        k \in {j \in DOMAIN schedules : schedules[j].room # ONLINE}}
  /\ lecturer_calendar = {<<schedules[k].dosen, schedules[k].day, schedules[k].start,
                            schedules[k].end>> : k \in DOMAIN schedules}
  /\ work = [existing_schedules |-> schedules, idx |-> 1,
             new_batch_schedules |-> {}, swapped_sections |-> {}]
  /\ pc = "dry_run"
  /\ schedule_result = <<>>
  /\ failed_sections = <<>>

\* one iteration of the loop in the trial call (sections_to_schedule given):
\* the same placement decision and the same tracking, nothing written
DryStep(sec, st, r) ==
  IF r.tier = 0 THEN [st EXCEPT !.ok = FALSE]
  ELSE
    [rc |-> st.rc
              \cup (IF r.tier = 4
                    THEN (IF r.x.room = ONLINE THEN {}
                          ELSE {<<r.x.day, r.x.room, r.x.start, r.x.end>>})
                           \cup {<<r.alt.day, r.alt.room, r.alt.start, r.alt.end>>}
                    ELSE IF r.slot.room = ONLINE THEN {}
                    ELSE {<<r.slot.day, r.slot.room, r.slot.start, r.slot.end>>}),
     lc |-> IF r.tier = 4 THEN st.lc
            ELSE st.lc \cup {<<sec.dosen, r.slot.day, r.slot.start, r.slot.end>>},
     batch |-> IF r.tier \in {1, 2}
               THEN st.batch \cup {<<sec.dosen, r.slot.day, r.slot.start, r.slot.end>>}
               ELSE st.batch,
     ns |-> IF r.tier \in {1, 2}
            THEN Append(st.ns, [dosen |-> sec.dosen, day |-> r.slot.day,
                                room |-> r.slot.room, start |-> r.slot.start,
                                end |-> r.slot.end])
            ELSE st.ns,
     swapped |-> IF r.tier = 4 THEN st.swapped \cup {r.x.id} ELSE st.swapped,
     ok |-> TRUE]

\* the loop of the trial call over the mock sections
RECURSIVE DryRun(_, _)
DryRun(i, st) ==
  IF i > Len(sections) \/ ~st.ok THEN st
  ELSE DryRun(i + 1,
              CHOOSE n \in {DryStep(sections[i], st, r) :
                              r \in {PlaceNew(sections[i], schedules, st.rc, st.lc,
                                              st.batch)}} : TRUE)

\* add_section_manual, first call: schedule_new_sections_only on mock
\* sections; an exception answers 400 before anything is inserted.  The
\* trial's newly_scheduled holds the sections placed by the first two tiers
AddDryRun ==
  /\ pc = "dry_run"
  /\ \E st \in {DryRun(1, [rc |-> room_calendar, lc |-> lecturer_calendar,
                           batch |-> {}, ns |-> <<>>, swapped |-> {},
                           ok |-> TRUE])} :
       pc' = IF /\ st.ok
                /\ bentrok(st.ns, schedules, st.swapped, FALSE) = <<>>
                /\ bentrok(st.ns, schedules, st.swapped, TRUE) = <<>>
             THEN "place" ELSE "rejected"
  /\ UNCHANGED <<lecturer_preferences, sections, schedules, room_calendar,
                 lecturer_calendar, schedule_result, failed_sections, work>>

\* add_section_manual, the except branch of the second call: the inserted
\* sections are deleted and the schedules with the new sections' labels are
\* deleted; nothing else is written
AddRollback ==
  /\ pc = "raised"
  /\ schedules' = SelectSeq(schedules, LAMBDA d : d.sec = 0)
  /\ sections' = <<>>
  /\ pc' = "failed"
  /\ UNCHANGED <<lecturer_preferences, room_calendar, lecturer_calendar,
                 schedule_result, failed_sections, work>>

NextAdd == AddDryRun \/ AddSection \/ AddValidate \/ AddRollback

SpecAdd == InitAdd /\ [][NextAdd]_vars

\* C3: when schedule_new_sections_only returns without raising, the timetable
\* has no two overlapping placements in one physical room on one day and no
\* lecturer with two overlapping placements on one day; this covers the new
\* sections, the sections scheduled before and a section relocated by a swap.
C3_AddKeepsTimetableConflictFree ==
  pc = "returned" => NoRoomOverlap(schedules) /\ NoLecturerOverlap(schedules)


\* ==================================================== day clustering (C11)
\* the greedy engine run for one lecturer teaching MaxClusterSections sections
MaxClusterSections == 4

InitCluster ==
  /\ lecturer_preferences \in
       {f \in [Lecturers -> PrefProfiles] : \A l \in Lecturers : l > 1 => f[l] = NoPrefs}
  /\ sections \in [1..MaxClusterSections -> {k \in SectionKinds : k.dosen = 1}]
  /\ schedules = <<>>
  /\ room_calendar = {}
  /\ lecturer_calendar = {}
  /\ schedule_result = <<>>
  /\ failed_sections = <<>>
  /\ work = [queue |-> online_sections_sorted,
             next_available_time |-> ONLINE_START_TIME,
             lecturers |-> sorted_lecturers, fb |-> <<>>,
             lecturer_days_used |-> [l \in Lecturers |-> {}], moves |-> <<>>]
  /\ pc = GreedyPhase(work.queue, <<>>, work.lecturers)

SpecCluster == InitCluster /\ [][NextGreedy]_vars

\* C11: in every timetable committed by the greedy engine, each lecturer with
\* at least one placed section teaches on at most 3 distinct days (online and
\* physical sections counted, after window packing, fallback and rebalance).
C11_AtMostThreeDays ==
  \A l \in Lecturers :
     Cardinality({schedules[i].day : i \in {j \in DOMAIN schedules :
                                              schedules[j].dosen = l}}) <= 3


\* ======================================================= preference model
\* check_lecturer_preferences (greedy engine) and check_preference_constraints
\* (targeted add) applied to one candidate slot.  Lecturer 2 carries the
\* preferences of lecturer 1 without the unavailable_time_ranges, so that the
\* same slot is also scored as if it overlapped no unavailable range.
InitPref ==
  /\ \E avail \in {{}, {Selasa, Rabu}} :
     \E unav \in {{}, {<<0, T(12, 0), T(15, 0)>>}, {<<Selasa, T(9, 0), T(10, 0)>>}} :
     \E pref \in {{}, {<<Selasa, T(8, 0), T(10, 30)>>}, {<<Kamis, T(8, 0), T(10, 30)>>}} :
        lecturer_preferences =
          [l \in Lecturers |->
             [available_days |-> avail,
              unavailable_time_ranges |-> IF l = 1 THEN unav ELSE {},
              preferred_times |-> pref]]
  /\ \E day \in Days : \E sks \in 1..3 : \E i \in DOMAIN TIMEBLOCKS(sks) :
     \E strict_mode \in BOOLEAN : \E is_online \in BOOLEAN :
        work = [day |-> day, start |-> TIMEBLOCKS(sks)[i][1],
                end |-> TIMEBLOCKS(sks)[i][2], strict_mode |-> strict_mode,
                is_online |-> is_online]
  /\ pc = "ask"
  /\ sections = <<>>
  /\ schedules = <<>>
  /\ room_calendar = {}
  /\ lecturer_calendar = {}
  /\ schedule_result = <<>>
  /\ failed_sections = <<>>

\* both preference checks on the slot, with and without the unavailable ranges
CheckPreferences ==
  /\ pc = "ask"
  /\ work' = [day |-> work.day, start |-> work.start, end |-> work.end,
              strict_mode |-> work.strict_mode, is_online |-> work.is_online,
              greedy |-> check_lecturer_preferences(1, work.day, work.start, work.end,
                                                    work.strict_mode, work.is_online),
              greedy_clear |-> check_lecturer_preferences(2, work.day, work.start,
                                  work.end, work.strict_mode, work.is_online),
              add |-> check_preference_constraints(1, work.day, work.start, work.end,
                                                   work.is_online),
              add_clear |-> check_preference_constraints(2, work.day, work.start,
                                                         work.end, work.is_online)]
  /\ pc' = "scored"
  /\ UNCHANGED <<lecturer_preferences, sections, schedules, room_calendar,
                 lecturer_calendar, schedule_result, failed_sections>>

SpecPref == InitPref /\ [][CheckPreferences]_vars

\* the scored slot overlaps an unavailable range of lecturer 1 that applies to
\* its day (the day itself or "*")
OverlapsUnavailable ==
  \E b \in lecturer_preferences[1].unavailable_time_ranges :
     (b[1] = work.day \/ b[1] = 0) /\ work.start < b[3] /\ b[2] < work.end

\* C15: for a non-online section both preference checks return (false, 0)
\* whenever the interval overlaps an unavailable range of the day or of "*",
\* in strict mode and in relaxed mode alike.
C15_UnavailableRejects ==
  (pc = "scored" /\ ~work.is_online /\ OverlapsUnavailable)
    => (work.greedy = <<FALSE, 0>> /\ work.add = <<FALSE, 0>>)

\* a physical slot inside a "*" range, checked in relaxed mode
C15_Witness ==
  /\ pc = "scored" /\ ~work.is_online /\ ~work.strict_mode /\ OverlapsUnavailable
  /\ work.greedy = <<FALSE, 0>>
  /\ work.greedy_clear[1]

\* C16: for an online section whose interval overlaps an unavailable range of
\* the day, check_lecturer_preferences allows the slot whenever it allows it
\* without the range, with a score strictly lower than without the range.
C16_OnlineSoftPenalty ==
  (pc = "scored" /\ work.is_online /\ OverlapsUnavailable /\ work.greedy_clear[1])
    => (work.greedy[1] /\ work.greedy[2] < work.greedy_clear[2])

\* C17: the score of a slot that is not rejected is 100 if the interval lies
\* inside a preferred range of the day, otherwise 75 if the day is an
\* available day, otherwise 50 (both preference checks).
C17_ScoreLevels ==
  LET prefs == lecturer_preferences[2]
      rule == IF \E r \in prefs.preferred_times :
                    r[1] = work.day /\ work.start >= r[2] /\ work.end <= r[3]
              THEN 100
              ELSE IF work.day \in prefs.available_days THEN 75 ELSE 50
  IN pc = "scored" =>
       /\ work.greedy_clear[1] => work.greedy_clear[2] = rule
       /\ work.add_clear[1] => work.add_clear[2] = rule


OverlapsBlockedWindow(req, s, e) ==
  IF req.time_type = "specific"
  THEN s <= req.specific_time + 10 /\ e > req.specific_time - 10
  ELSE IF req.time_type = "range"
  THEN s < req.end_time /\ e > req.start_time
  ELSE TRUE

\* C14: the repair engine classifies a placement of the reporting lecturer as
\* affected exactly when it lies on a reported day and its interval
\* [start, end) overlaps the blocked window of the report.
C14_AffectedIffOverlapsWindow ==
  (pc[1] # "start" /\ work[1].moved = 0 /\ work[1].failed = <<>>) =>
    \A i \in DOMAIN schedules :
       schedules[i].dosen = work[1].req.lecturer =>
         ((\E k \in DOMAIN work[1].all_affected : work[1].all_affected[k].id = i)
            <=> (/\ schedules[i].day \in Range(work[1].req.unavailable_days)
                 /\ OverlapsBlockedWindow(work[1].req, schedules[i].start,
                                          schedules[i].end)))

\* a slot the claim calls feasible for class cls: a weekday and a candidate
\* time of the engine's grid, outside the lunch break, outside the reported
\* window and the approved blocks, outside the lecturer's unavailable ranges,
\* in a room of the class's pool, overlapping no other placement of the
\* lecturer and no placement in that room
FeasibleSlot(cls) ==
  LET req == work[1].req
      prefs == lecturer_preferences[req.lecturer]
      cand == generate_candidates(cls.end - cls.start)
  IN \E d \in Days : \E j \in DOMAIN cand : \E r \in Range(room_pool(cls.room)) :
       /\ ~(d \in Range(req.unavailable_days)
              /\ (OverlapsBlockedWindow(req, cand[j][1], cand[j][2])
                    \/ in_block(req, cand[j][1], cand[j][2])))
       /\ ~overlaps_lunch(d, cand[j][1], cand[j][2])
       /\ ~is_in_approved_block(work[1].approved_blocks, d, cand[j][1], cand[j][2])
       /\ ~UnavailableHit(prefs, d, cand[j][1], cand[j][2])
       /\ \A i \in DOMAIN schedules :
             (i # cls.id /\ schedules[i].day = d
                /\ times_overlap(cand[j][1], cand[j][2], schedules[i].start,
                                 schedules[i].end))
               => /\ schedules[i].dosen # req.lecturer
                  /\ (r = ONLINE \/ schedules[i].room # r)

\* C13: the repair engine records a class as failed only when no feasible
\* slot exists on any weekday, whether or not the day is one of the
\* lecturer's available days.
C13_FailedOnlyWhenNoFeasibleSlot ==
  [][Len(work'[1].failed) > Len(work[1].failed)
       => ~FeasibleSlot(Head(work[1].affected))]_vars


\* C18: when no lecturer has selected any course, the section generator
\* aborts with an error: it creates no section and does not end as a
\* successful generation.
C18_NoSelectionAborts ==
  (pc # "select" /\ \A c \in DOMAIN work.courses : work.courses[c].selected_by = <<>>)
    => (sections = <<>> /\ pc # "generated")


MaxDetectDocs == 3

\* range(s_min, e_min, 10)
minutes_of(slot) ==
  [i \in 1..((slot.end - slot.start + 9) \div 10) |-> slot.start + 10 * (i - 1)]

\* build_conflict_report: one entry per slot and 10-minute step whose key
\* (day, room, minute) or (day, lecturer, minute) was entered by an earlier
\* slot; "if room:" holds for every room name, "ONLINE" included
build_conflict_report(schedule) ==
  LET taken(k, m, by_room) ==
        \E j \in 1..(k - 1) :
           /\ schedule[j].day = schedule[k].day
           /\ IF by_room THEN schedule[j].room = schedule[k].room
              ELSE schedule[j].dosen = schedule[k].dosen
           /\ \E i \in DOMAIN minutes_of(schedule[j]) : minutes_of(schedule[j])[i] = m
      found(by_room) ==
        Flatten([k \in DOMAIN schedule |->
          LET hit == SelectSeq(minutes_of(schedule[k]),
                               LAMBDA m : taken(k, m, by_room))
          IN [i \in DOMAIN hit |->
                [day |-> schedule[k].day, room |-> schedule[k].room,
                 lecturer |-> schedule[k].dosen, minute |-> hit[i]]]])
  IN [room_conflicts |-> found(TRUE), lecturer_conflicts |-> found(FALSE)]

\* check_schedule_conflicts: pairs of one lecturer, and pairs of one physical
\* room on one day, with overlapping times
check_schedule_conflicts(schedule) ==
  LET n == Len(schedule)
      pairs == SelectSeq([k \in 1..(n * n) |->
                            <<((k - 1) \div n) + 1, ((k - 1) % n) + 1>>],
                         LAMBDA p : p[1] < p[2])
      clash(p) ==
        /\ schedule[p[1]].day = schedule[p[2]].day
        /\ schedule[p[1]].start < schedule[p[2]].end
        /\ schedule[p[2]].start < schedule[p[1]].end
      entry(p) == [day |-> schedule[p[1]].day, room |-> schedule[p[1]].room,
                   lecturer |-> schedule[p[1]].dosen,
                   minute |-> schedule[p[1]].start]
      by_lect == SelectSeq(pairs, LAMBDA p :
                   schedule[p[1]].dosen = schedule[p[2]].dosen /\ clash(p))
      by_room == SelectSeq(pairs, LAMBDA p :
                   /\ schedule[p[1]].room # ONLINE
                   /\ schedule[p[1]].room = schedule[p[2]].room
                   /\ clash(p))
  IN [room_conflicts |-> [i \in DOMAIN by_room |-> entry(by_room[i])],
      lecturer_conflicts |-> [i \in DOMAIN by_lect |-> entry(by_lect[i])]]

\* the report of the run before, kept for comparison (<<>> on the first run)
PreviousReport ==
  IF pc = "loaded" THEN <<>>
  ELSE <<[room_conflicts |-> work.room_conflicts,
          lecturer_conflicts |-> work.lecturer_conflicts]>>

\* a detector that removes the first document it has read
BuildConflictReport_Writing ==
  /\ pc = "loaded" \/ (pc = "reported" /\ work.previous = <<>>)
  /\ \E rep \in {build_conflict_report(schedules)} :
       work' = [room_conflicts |-> rep.room_conflicts,
                lecturer_conflicts |-> rep.lecturer_conflicts,
                previous |-> PreviousReport]
  /\ schedules' = IF schedules = <<>> THEN <<>> ELSE Tail(schedules)
  /\ pc' = "reported"
  /\ UNCHANGED <<lecturer_preferences, sections, room_calendar,
                 lecturer_calendar, schedule_result, failed_sections>>

\* GET /conflicts_report: build_conflict_report on load_schedule(); the route
\* can be requested again on the same collection
BuildConflictReport ==
  /\ pc = "loaded" \/ (pc = "reported" /\ work.previous = <<>>)
  /\ \E rep \in {build_conflict_report(schedules)} :
       work' = [room_conflicts |-> rep.room_conflicts,
                lecturer_conflicts |-> rep.lecturer_conflicts,
                previous |-> PreviousReport]
  /\ pc' = "reported"
  /\ UNCHANGED <<lecturer_preferences, sections, schedules, room_calendar,
                 lecturer_calendar, schedule_result, failed_sections>>

CheckScheduleConflicts ==
  /\ pc = "loaded" \/ (pc = "checked" /\ work.previous = <<>>)
  /\ \E rep \in {check_schedule_conflicts(schedules)} :
       work' = [room_conflicts |-> rep.room_conflicts,
                lecturer_conflicts |-> rep.lecturer_conflicts,
                previous |-> PreviousReport]
  /\ pc' = "checked"
  /\ UNCHANGED <<lecturer_preferences, sections, schedules, room_calendar,
                 lecturer_calendar, schedule_result, failed_sections>>

\* the timetable read by load_schedule: up to MaxDetectDocs placements,
\* online and physical, with and without overlaps
InitDetect ==
  /\ \E n \in 1..MaxDetectDocs :
       \E f \in [1..n -> Lecturers \X
                   { [day |-> ONLINE_DAY, room |-> ONLINE, start |-> T(8, 0),
                      end |-> T(8, 50)],
                     [day |-> ONLINE_DAY, room |-> ONLINE, start |-> T(8, 0),
                      end |-> T(10, 30)],
                     [day |-> ONLINE_DAY, room |-> NON_LAB_ROOMS[1],
                      start |-> T(8, 0), end |-> T(9, 40)],
                     [day |-> Senin, room |-> NON_LAB_ROOMS[1], start |-> T(8, 0),
                      end |-> T(9, 40)],
                     [day |-> Senin, room |-> NON_LAB_ROOMS[1], start |-> T(8, 50),
                      end |-> T(10, 30)],
                     [day |-> Senin, room |-> LAB_ROOMS[1], start |-> T(8, 0),
                      end |-> T(10, 30)] }] :
          schedules = [i \in 1..n |->
                         [dosen |-> f[i][1], day |-> f[i][2].day,
                          room |-> f[i][2].room, start |-> f[i][2].start,
                          end |-> f[i][2].end]]
  /\ work = [room_conflicts |-> <<>>, lecturer_conflicts |-> <<>>,
             previous |-> <<>>]
  /\ pc = "loaded"
  /\ lecturer_preferences = [l \in Lecturers |-> NoPrefs]
  /\ sections = <<>>
  /\ room_calendar = {}
  /\ lecturer_calendar = {}
  /\ schedule_result = <<>>
  /\ failed_sections = <<>>

NextDetect == BuildConflictReport \/ CheckScheduleConflicts

SpecDetect == InitDetect /\ [][NextDetect]_vars

\* every pair of placements overlapping in time on one day is a pair of online
\* placements of different lecturers
OnlyOnlineOverlaps(schedule) ==
  \A i, j \in DOMAIN schedule :
     (i < j /\ schedule[i].day = schedule[j].day
        /\ times_overlap(schedule[i].start, schedule[i].end, schedule[j].start,
                         schedule[j].end))
       => /\ schedule[i].room = ONLINE /\ schedule[j].room = ONLINE
          /\ schedule[i].dosen # schedule[j].dosen

\* C20: the conflict detector never reports a room conflict between
\* placements whose room is ONLINE: for a timetable whose only overlaps are
\* online placements of different lecturers at the same time on the same day,
\* the report holds no room conflict.
C20_NoOnlineRoomConflict ==
  (pc \in {"reported", "checked"} /\ OnlyOnlineOverlaps(schedules))
    => work.room_conflicts = <<>>


C22_NoPhysicalInUnavailable ==
  [][\A i \in DOMAIN schedules :
        (schedules'[i] # schedules[i] /\ schedules'[i].room # ONLINE)
          => ~UnavailableHit(lecturer_preferences[schedules'[i].dosen],
                             schedules'[i].day, schedules'[i].start,
                             schedules'[i].end)]_vars


\* the windows an approved report blocks: its own window in the single-window
\* format, one window per entry in the multi-entry format (day 0 = every day)
ApprovedWindows(b) ==
  (IF b.days = {} THEN {}
   ELSE {[days |-> b.days, time_type |-> b.time_type,
          specific_time |-> b.specific_time, start_time |-> b.start_time,
          end_time |-> b.end_time]})
  \cup {[days |-> IF b.entries[k].day = 0 THEN Days ELSE {b.entries[k].day},
         time_type |-> b.entries[k].time_type,
         specific_time |-> b.entries[k].specific_time,
         start_time |-> b.entries[k].start_time,
         end_time |-> b.entries[k].end_time] : k \in DOMAIN b.entries}

\* C23: a repair run moves no section of the lecturer into a window blocked
\* by one of the lecturer's approved reports, in the single-window format or
\* in the multi-entry format.
C23_NoMoveIntoApprovedWindow ==
  [][\A i \in DOMAIN schedules :
        schedules'[i] # schedules[i] =>
          \A b \in work[1].approved_blocks : \A w \in ApprovedWindows(b) :
             ~(/\ schedules'[i].day \in w.days
               /\ OverlapsBlockedWindow(w, schedules'[i].start, schedules'[i].end))]_vars


\* C24: in the timetable committed by the greedy engine every online section
\* is on ONLINE_DAY in the room ONLINE; no later step of the run has moved it
\* to another day.
C24_OnlineOnOnlineDay ==
  pc = "done" =>
    \A i \in DOMAIN schedules :
       sections[schedules[i].si].is_online =>
         (schedules[i].day = ONLINE_DAY /\ schedules[i].room = ONLINE)


\* C25: the rebalancing pass tries the movable candidates of a donor day in
\* the order online-or-non-lab first and, among candidates equal in these
\* respects, smallest sks first.  The moves are recorded in the order the
\* candidates were tried.
C25_DonorOrder ==
  pc \in {"save_delete", "save_insert", "done"} =>
    \A i, j \in DOMAIN work.moves :
       (i < j /\ work.moves[i][2] = work.moves[j][2]) =>
         LET a == sections[work.moves[i][1]]
             b == sections[work.moves[j][1]]
         IN /\ (b.is_online \/ ~b.is_lab) => (a.is_online \/ ~a.is_lab)
            /\ (a.is_online = b.is_online /\ a.is_lab = b.is_lab) => a.sks <= b.sks


\* -------------------------------------------------------------------------
\* repair_solution, one iteration of its while loop per step
\* work = [courses, pairs, individual, iteration]
\* -------------------------------------------------------------------------
\* all_valid: no lecturer with a load is under MIN_SKS_PER_DOSEN or over
\* MAX_SKS_PER_DOSEN
all_valid(courses, pairs, ind) ==
  \A l \in Lecturers :
     \/ dosen_sks(courses, pairs, ind, l) = 0
     \/ /\ dosen_sks(courses, pairs, ind, l) >= MIN_SKS_PER_DOSEN
        /\ dosen_sks(courses, pairs, ind, l) <= MAX_SKS_PER_DOSEN

\* "while iteration < max_iterations": the loads are computed, every lecturer
\* outside the band is adjusted, and the loop is left when all were valid
RepairIteration ==
  /\ pc = "loop"
  /\ \E valid \in {all_valid(work.courses, work.pairs, work.individual)} :
       \E next \in {RepairPass(work.courses, work.pairs, work.individual, 1)} :
          /\ work' = [work EXCEPT !.iteration = @ + 1, !.individual = next]
          /\ pc' = IF valid \/ work.iteration + 1 >= max_iterations
                   THEN "returned" ELSE "loop"
  /\ UNCHANGED <<lecturer_preferences, sections, schedules, room_calendar,
                 lecturer_calendar, schedule_result, failed_sections>>

\* the calls of repair_solution: individuals of the population (genes 1..4)
\* and the best individual after the search (genes 1..5), for every
\* assignment of lecturers to up to MaxCourses courses
InitRepairSolution ==
  /\ \E n \in 1..MaxCourses :
       \E sks \in [1..n -> 1..3] :
          \E f \in [1..n -> (SUBSET Lecturers) \ {{}}] :
             \E pairs \in {dosen_course_pairs(f)} :
                \E ind \in [DOMAIN pairs -> 1..5] :
                   work = [courses |-> [c \in 1..n |-> [sks |-> sks[c],
                                                        selected_by |-> <<>>]],
                           pairs |-> pairs, individual |-> ind, iteration |-> 0]
  /\ pc = "loop"
  /\ sections = <<>>
  /\ lecturer_preferences = [l \in Lecturers |-> NoPrefs]
  /\ schedules = <<>>
  /\ room_calendar = {}
  /\ lecturer_calendar = {}
  /\ schedule_result = <<>>
  /\ failed_sections = <<>>

SpecRepairSolution ==
  InitRepairSolution /\ [][RepairIteration]_vars /\ WF_vars(RepairIteration)

\* C26: repair_solution returns on every input within max_iterations
\* iterations; every section count of the vector stays in 1..5; and when it
\* returns before the iteration cap, every lecturer with a load has a total
\* between MIN_SKS_PER_DOSEN and MAX_SKS_PER_DOSEN.
C26_RepairTerminatesInRange ==
  /\ [](/\ work.iteration <= max_iterations
        /\ \A i \in DOMAIN work.individual : work.individual[i] \in 1..5
        /\ (pc = "returned" /\ work.iteration < max_iterations)
             => all_valid(work.courses, work.pairs, work.individual))
  /\ <>(pc = "returned")

\* a return before the cap after at least one adjusting iteration, and a
\* return at the cap
C26_Witness ==
  /\ pc = "returned"
  /\ work.iteration > 1
  /\ work.iteration < max_iterations


\* C27: every committed physical lab section is in a lab room and every
\* committed physical non-lab section is in a non-lab room, whichever step
\* of the run (window packing, fallback, Friday rebalancing) placed it.
C27_RoomTypeMatches ==
  pc = "done" =>
    \A i \in DOMAIN schedules :
       schedules[i].room # ONLINE =>
         schedules[i].room \in Range(suitable_rooms(sections[schedules[i].si].is_lab))


\* -------------------------------------------------------------------------
\* choose_course under concurrent requests
\* work = [courses, req]: courses[c] is the selected_by list of course c,
\* req[p] the request of process p with the course document it has read;
\* pc[p] is the position of process p in the handler
\* -------------------------------------------------------------------------
NumChooseUsers == 4
NumChooseCourses == 4
NumChooseProcs == 2

ChooseUsers == 1..NumChooseUsers
ChooseProcs == 1..NumChooseProcs

\* count_documents({"selected_by": username})
selected_count(courses, username) ==
  Cardinality({c \in DOMAIN courses : username \in Range(courses[c])})

\* course = find_one(...); the test on the number of lecturers of the course
ChooseFind(p) ==
  /\ pc[p] = "find"
  /\ \E selected_by \in {work.courses[work.req[p].course_id]} :
       /\ work' = [work EXCEPT !.req[p].selected_by = selected_by]
       /\ pc' = [pc EXCEPT ![p] =
                   IF Len(selected_by) >= 3
                      /\ work.req[p].username \notin Range(selected_by)
                   THEN "rejected" ELSE "count"]
  /\ UNCHANGED <<lecturer_preferences, sections, schedules, room_calendar,
                 lecturer_calendar, schedule_result, failed_sections>>

\* selected_count = count_documents(...); the test on the lecturer's courses
ChooseCount(p) ==
  /\ pc[p] = "count"
  /\ pc' = [pc EXCEPT ![p] =
              IF selected_count(work.courses, work.req[p].username)
                   >= MAX_COURSES_PER_DOSEN
              THEN "rejected" ELSE "update"]
  /\ UNCHANGED <<lecturer_preferences, sections, schedules, room_calendar,
                 lecturer_calendar, schedule_result, failed_sections, work>>

\* update_one($set selected_by) with the list of the document read by find_one
ChooseUpdate(p) ==
  /\ pc[p] = "update"
  /\ LET r == work.req[p]
     IN work' = [work EXCEPT !.courses[r.course_id] =
                   IF r.username \in Range(r.selected_by) THEN r.selected_by
                   ELSE Append(r.selected_by, r.username)]
  /\ pc' = [pc EXCEPT ![p] = "done"]
  /\ UNCHANGED <<lecturer_preferences, sections, schedules, room_calendar,
                 lecturer_calendar, schedule_result, failed_sections>>

\* the selections before the requests: lecturer u holds the first k[u]
\* courses, within both limits; every process has one request in flight
InitChoose ==
  /\ \E k \in [ChooseUsers -> 0..MAX_COURSES_PER_DOSEN] :
       \E users \in [ChooseProcs -> ChooseUsers] :
          \E ids \in [ChooseProcs -> 1..NumChooseCourses] :
             /\ \A c \in 1..NumChooseCourses :
                   Cardinality({u \in ChooseUsers : k[u] >= c}) <= 3
             /\ work = [courses |-> [c \in 1..NumChooseCourses |->
                           SelectSeq([u \in ChooseUsers |-> u],
                                     LAMBDA u : k[u] >= c)],
                        req |-> [p \in ChooseProcs |->
                           [username |-> users[p], course_id |-> ids[p],
                            selected_by |-> <<>>]]]
  /\ pc = [p \in ChooseProcs |-> "find"]
  /\ sections = <<>>
  /\ lecturer_preferences = [l \in Lecturers |-> NoPrefs]
  /\ schedules = <<>>
  /\ room_calendar = {}
  /\ lecturer_calendar = {}
  /\ schedule_result = <<>>
  /\ failed_sections = <<>>

NextChoose == \E p \in ChooseProcs : ChooseFind(p) \/ ChooseCount(p) \/ ChooseUpdate(p)

SpecChoose == InitChoose /\ [][NextChoose]_vars

CourseLimitHolds ==
  \A c \in DOMAIN work.courses : Cardinality(Range(work.courses[c])) <= 3

LecturerLimitHolds ==
  \A u \in ChooseUsers :
     selected_count(work.courses, u) <= MAX_COURSES_PER_DOSEN

\* C28: under every interleaving of concurrent choose_course requests no
\* course has more than 3 distinct lecturers in selected_by and no lecturer
\* has more than MAX_COURSES_PER_DOSEN selected courses.
C28_SelectionLimits == CourseLimitHolds /\ LecturerLimitHolds


\* -------------------------------------------------------------------------
\* repair_schedule_conflicts_and_days
\* a document: [id, course_name, section_name, section_label, sks, dosen,
\* day, start, end, room]; 0 stands for a field the document does not have
\* work = [before, placed, skipped]
\* -------------------------------------------------------------------------
MaxFixDocs == 12

NoPref == -1

\* course 1 is a non-lab course, course 2 a lab course (course_map)
FixCourses == <<[is_lab |-> FALSE], [is_lab |-> TRUE]>>

\* order of the day names as strings: Jumat < Kamis < Rabu < Selasa < Senin
AlphaRank(day) == 6 - day

\* get_valid_starts: 50-minute steps inside 08:00-12:10 and 14:00-16:30
get_valid_starts(day, duration_minutes) ==
  LET block(s, len) == SelectSeq([i \in 1..5 |-> s + 50 * (i - 1)],
                                 LAMBDA c : c + duration_minutes <= s + len)
  IN block(T(8, 0), 250) \o block(T(14, 0), 150)

\* range(s_min, e_min, 10)
minute_range(s_min, e_min) ==
  {s_min + 10 * k : k \in 0..((e_min - s_min - 1) \div 10)}

\* by_lect: lecturers in the order of their first document
by_lect_order(docs) ==
  LET first == SelectSeq([i \in DOMAIN docs |-> i] \o <<>>, LAMBDA i :
                 \A j \in 1..(i - 1) : docs[j].dosen # docs[i].dosen)
  IN [k \in DOMAIN first |-> docs[first[k]].dosen] \o <<>>

\* lst.sort(key = (day, start, course_name))
by_lect_entries(docs, lect) ==
  LET mine == SelectSeq(docs, LAMBDA d : d.dosen = lect)
  IN Items(SortPairs([k \in DOMAIN mine |->
        <<AlphaRank(mine[k].day) * 100000 + mine[k].start * 10
            + mine[k].course_name, mine[k]>>] \o <<>>))

\* try_place(room_pref, day_pref, start_pref): the first free slot in the
\* order rooms / days / starts, the preferred values first
try_place(lect, duration, rooms_of_type, st, room_pref, day_pref, start_pref) ==
  LET rlist == IF room_pref # NoPref
               THEN <<room_pref>> \o SelectSeq(rooms_of_type, LAMBDA r : r # room_pref)
               ELSE rooms_of_type
      dlist == IF day_pref # NoPref
               THEN <<day_pref>> \o SelectSeq(<<1, 2, 3, 4, 5>>, LAMBDA d : d # day_pref)
               ELSE <<1, 2, 3, 4, 5>>
      allowed == SelectSeq(dlist, LAMBDA dd :
                    dd \in st.lect_days \/ Cardinality(st.lect_days) < 3)
      slist(dd) == IF start_pref # NoPref
                   THEN <<start_pref>> \o SelectSeq(get_valid_starts(dd, duration),
                                                   LAMBDA s : s # start_pref)
                   ELSE get_valid_starts(dd, duration)
      cands == Flatten([i \in DOMAIN rlist |->
                 Flatten([j \in DOMAIN allowed |->
                    [k \in DOMAIN slist(allowed[j]) |->
                       [room |-> rlist[i], day |-> allowed[j],
                        start |-> slist(allowed[j])[k]]] \o <<>>] \o <<>>)] \o <<>>)
  IN FirstOrNone(SelectSeq(cands, LAMBDA c :
       \A minute \in minute_range(c.start, c.start + duration) :
          /\ <<lect, c.day, minute>> \notin st.booked_lect
          /\ <<c.day, c.room, minute>> \notin st.booked_room))

\* the loop body for one entry of a lecturer
PlaceEntry(e, lect, st) ==
  LET is_lab == FixCourses[e.course_name].is_lab \/ e.room \in Range(LAB_ROOMS)
      duration == IF e.sks \in {1, 2} THEN 100 ELSE 150
      rs == suitable_rooms(is_lab)
      a1 == try_place(lect, duration, rs, st, e.room, e.day, e.start)
      a2 == try_place(lect, duration, rs, st, e.room, e.day, NoPref)
      a3 == try_place(lect, duration, rs, st, NoPref, e.day, e.start)
      a4 == try_place(lect, duration, rs, st, NoPref, NoPref, NoPref)
      placed == IF a1.ok THEN a1 ELSE IF a2.ok THEN a2 ELSE IF a3.ok THEN a3 ELSE a4
  IN IF placed.ok
     THEN [new_docs |-> Append(st.new_docs,
              [id |-> e.id, course_name |-> e.course_name,
               section_name |-> e.section_name, section_label |-> 0,
               sks |-> e.sks, room |-> placed.slot.room, day |-> placed.slot.day,
               start |-> placed.slot.start, end |-> placed.slot.start + duration,
               dosen |-> lect]),
           booked_lect |-> st.booked_lect \cup
              {<<lect, placed.slot.day, m>> :
                 m \in minute_range(placed.slot.start, placed.slot.start + duration)},
           booked_room |-> st.booked_room \cup
              {<<placed.slot.day, placed.slot.room, m>> :
                 m \in minute_range(placed.slot.start, placed.slot.start + duration)},
           lect_days |-> st.lect_days \cup {placed.slot.day},
           skipped_count |-> st.skipped_count]
     ELSE [st EXCEPT !.skipped_count = @ + 1]

RECURSIVE PlaceEntries(_, _, _)
PlaceEntries(entries, lect, st) ==
  IF entries = <<>> THEN st
  ELSE CHOOSE r \in {PlaceEntries(Tail(entries), lect, n) :
                      n \in {PlaceEntry(Head(entries), lect, st)}} : TRUE

\* "for lect, entries in by_lect.items()": lect_days starts empty per lecturer
RECURSIVE PlaceLecturers(_, _, _)
PlaceLecturers(lects, docs, st) ==
  IF lects = <<>> THEN st
  ELSE CHOOSE r \in {PlaceLecturers(Tail(lects), docs, n) :
                      n \in {PlaceEntries(by_lect_entries(docs, Head(lects)),
                                          Head(lects),
                                          [st EXCEPT !.lect_days = {}])}} : TRUE

repair_schedule_conflicts_and_days(docs) ==
  PlaceLecturers(by_lect_order(docs), docs,
                 [new_docs |-> <<>>, booked_lect |-> {}, booked_room |-> {},
                  lect_days |-> {}, skipped_count |-> 0])

\* the route /repair_schedule: delete_many({}) and insert_many(new_docs)
RepairScheduleRoute ==
  /\ pc = "loaded"
  /\ \E st \in {repair_schedule_conflicts_and_days(schedules)} :
       /\ schedules' = IF schedules = <<>> THEN <<>> ELSE st.new_docs
       /\ work' = [before |-> schedules, placed |-> Len(st.new_docs),
                   skipped |-> st.skipped_count]
  /\ pc' = "repaired"
  /\ UNCHANGED <<lecturer_preferences, sections, room_calendar,
                 lecturer_calendar, schedule_result, failed_sections>>

\* timetables before the call: lecturer 1 teaches n sections of the 1-sks
\* non-lab course in consecutive 50-minute blocks from day d0 on, lecturer 2
\* some of three further classes; the documents carry either section_name
\* (generator format) or section_label (greedy engine format)
FixExtras ==
  << [course_name |-> 2, sks |-> 3, dosen |-> 2, day |-> Senin,
      start |-> T(8, 0), end |-> T(10, 30), room |-> LAB_ROOMS[1]],
     [course_name |-> 1, sks |-> 2, dosen |-> 2, day |-> Jumat,
      start |-> T(14, 0), end |-> T(15, 40), room |-> NON_LAB_ROOMS[1]],
     [course_name |-> 1, sks |-> 3, dosen |-> 2, day |-> Rabu,
      start |-> T(9, 0), end |-> T(11, 30), room |-> ONLINE] >>

FixTimetable(n, d0, extras, by_name) ==
  LET own == [k \in 1..n |->
                [course_name |-> 1, sks |-> 1, dosen |-> 1,
                 day |-> d0 + ((k - 1) \div 8),
                 start |-> TIMEBLOCKS(1)[((k - 1) % 8) + 1][1],
                 end |-> TIMEBLOCKS(1)[((k - 1) % 8) + 1][2],
                 room |-> NON_LAB_ROOMS[1]]] \o <<>>
      all == own \o SelectSeq(FixExtras, LAMBDA x :
                      \E i \in extras : FixExtras[i] = x)
  IN [i \in DOMAIN all |->
        [id |-> i, course_name |-> all[i].course_name,
         section_name |-> IF by_name THEN i ELSE 0,
         section_label |-> IF by_name THEN 0 ELSE i,
         sks |-> all[i].sks, dosen |-> all[i].dosen, day |-> all[i].day,
         start |-> all[i].start, end |-> all[i].end, room |-> all[i].room]] \o <<>>

InitFix ==
  /\ \E n \in 0..MaxFixDocs : \E d0 \in 1..4 : \E extras \in SUBSET (1..3) :
       \E by_name \in BOOLEAN :
          /\ n + Cardinality(extras) > 0
          /\ schedules = FixTimetable(n, d0, extras, by_name)
  /\ work = [before |-> <<>>, placed |-> 0, skipped |-> 0]
  /\ pc = "loaded"
  /\ sections = <<>>
  /\ lecturer_preferences = [l \in Lecturers |-> NoPrefs]
  /\ room_calendar = {}
  /\ lecturer_calendar = {}
  /\ schedule_result = <<>>
  /\ failed_sections = <<>>

SpecFix == InitFix /\ [][RepairScheduleRoute]_vars

\* the section an entry names: section_name, or section_label when the
\* document has no section_name
EntryOf(d) ==
  <<d.course_name, IF d.section_name # 0 THEN d.section_name ELSE d.section_label,
    d.dosen>>

\* every entry is kept
EntriesKept ==
  pc = "repaired" =>
    {EntryOf(schedules[i]) : i \in DOMAIN schedules}
      = {EntryOf(work.before[i]) : i \in DOMAIN work.before}

\* a kept document differs from the original in day, start, end, room only
OnlySlotDiffers ==
  pc = "repaired" =>
    \A i \in DOMAIN schedules : \E j \in DOMAIN work.before :
       /\ work.before[j].id = schedules[i].id
       /\ [work.before[j] EXCEPT !.day = schedules[i].day,
             !.start = schedules[i].start, !.end = schedules[i].end,
             !.room = schedules[i].room] = schedules[i]

\* C29: repair_schedule_conflicts_and_days keeps every timetable entry: the
\* (course, section, lecturer) entries after the call are those before the
\* call, and only day, start, end and room of an entry may differ.
C29_EntriesPreserved == EntriesKept /\ OnlySlotDiffers

\* the same for timetables in the generator format only
NameEntriesKept ==
  (pc = "repaired" /\ \A i \in DOMAIN work.before : work.before[i].section_name # 0)
    => (EntriesKept /\ OnlySlotDiffers)


\* -------------------------------------------------------------------------
\* spread_online_courses
\* a document: [id, dosen, sks, day, start, end, room]
\* -------------------------------------------------------------------------
MaxSpreadOnline == 6

TARGET_DAYS == <<Senin, Selasa, Rabu, Kamis, Jumat>>

ONLINE_TIMEBLOCKS ==
  << <<T(8,0),T(8,50)>>, <<T(8,50),T(9,40)>>, <<T(9,40),T(10,30)>>,
     <<T(10,30),T(11,20)>>, <<T(11,20),T(12,10)>>,
     <<T(8,0),T(9,40)>>, <<T(9,40),T(11,20)>>, <<T(11,20),T(13,0)>>,
     <<T(14,0),T(14,50)>>, <<T(14,50),T(15,40)>>, <<T(15,40),T(16,30)>>,
     <<T(14,0),T(15,40)>>, <<T(15,40),T(17,20)>> >>

\* lecturer_physical_schedule[(lecturer, day)]
lecturer_physical_schedule(docs, lecturer, day) ==
  SelectSeq(docs, LAMBDA d : d.room # ONLINE /\ d.dosen = lecturer /\ d.day = day)

\* "while attempts < len(TARGET_DAYS) and not found_slot": the first
\* timeblock of the target day that overlaps no physical class
RECURSIVE FindSafeSlot(_, _, _, _)
FindSafeSlot(docs, lecturer, day_index, attempts) ==
  IF attempts >= Len(TARGET_DAYS) THEN [found |-> FALSE, day_index |-> day_index]
  ELSE LET target_day == TARGET_DAYS[(day_index % Len(TARGET_DAYS)) + 1]
           phys == lecturer_physical_schedule(docs, lecturer, target_day)
           safe == SelectSeq(ONLINE_TIMEBLOCKS, LAMBDA tb :
                     \A k \in DOMAIN phys :
                        ~times_overlap(tb[1], tb[2], phys[k].start, phys[k].end))
       IN IF safe # <<>>
          THEN [found |-> TRUE, day |-> target_day, start |-> safe[1][1],
                end |-> safe[1][2], day_index |-> day_index + 1]
          ELSE FindSafeSlot(docs, lecturer, day_index + 1, attempts + 1)

\* the loop over the online classes; day_index is kept per lecturer
RECURSIVE SpreadClasses(_, _, _, _)
SpreadClasses(docs, i, day_index, out) ==
  IF i > Len(docs) THEN out
  ELSE IF docs[i].room # ONLINE
  THEN SpreadClasses(docs, i + 1, day_index, out)
  ELSE CHOOSE r \in
         {SpreadClasses(docs, i + 1,
             [day_index EXCEPT ![docs[i].dosen] = slot.day_index],
             IF slot.found
             THEN [out EXCEPT ![i].day = slot.day, ![i].start = slot.start,
                              ![i].end = slot.end]
             ELSE out) :
            slot \in {FindSafeSlot(docs, docs[i].dosen,
                                   day_index[docs[i].dosen], 0)}} : TRUE

\* the route: bulk_write of the collected updates
SpreadOnlineCourses ==
  /\ pc = "loaded"
  /\ schedules' = SpreadClasses(schedules, 1, [l \in Lecturers |-> 0], schedules)
  /\ pc' = IF \E i \in DOMAIN schedules : schedules[i].room = ONLINE
           THEN "spread" ELSE "nothing_to_spread"
  /\ UNCHANGED <<lecturer_preferences, sections, room_calendar, lecturer_calendar,
                 schedule_result, failed_sections, work>>

\* conflict-free timetables before the call: n online 1-sks classes of
\* lecturer 1 and m of lecturer 2 one after the other on ONLINE_DAY from
\* ONLINE_START_TIME, and some physical classes of lecturer 1 on other days
SpreadPhysical ==
  << [dosen |-> 1, sks |-> 3, day |-> Senin, start |-> T(8, 0), end |-> T(10, 30),
      room |-> NON_LAB_ROOMS[1]],
     [dosen |-> 1, sks |-> 3, day |-> Senin, start |-> T(10, 30), end |-> T(13, 0),
      room |-> NON_LAB_ROOMS[1]],
     [dosen |-> 1, sks |-> 3, day |-> Senin, start |-> T(14, 0), end |-> T(16, 30),
      room |-> LAB_ROOMS[1]],
     [dosen |-> 1, sks |-> 2, day |-> Selasa, start |-> T(8, 0), end |-> T(9, 40),
      room |-> NON_LAB_ROOMS[1]] >>

SpreadTimetable(n, m, phys) ==
  LET online == [k \in 1..(n + m) |->
                   [dosen |-> IF k <= n THEN 1 ELSE 2, sks |-> 1, day |-> ONLINE_DAY,
                    start |-> ONLINE_START_TIME + 50 * (k - 1),
                    end |-> ONLINE_START_TIME + 50 * k, room |-> ONLINE]] \o <<>>
      all == online \o SelectSeq(SpreadPhysical, LAMBDA x :
                         \E i \in phys : SpreadPhysical[i] = x)
  IN [i \in DOMAIN all |->
        [id |-> i, dosen |-> all[i].dosen, sks |-> all[i].sks, day |-> all[i].day,
         start |-> all[i].start, end |-> all[i].end, room |-> all[i].room]] \o <<>>

InitSpread ==
  /\ \E n \in 0..MaxSpreadOnline : \E m \in 0..2 : \E phys \in SUBSET (1..4) :
       schedules = SpreadTimetable(n, m, phys)
  /\ NoLecturerOverlap(schedules)
  /\ work = <<>>
  /\ pc = "loaded"
  /\ sections = <<>>
  /\ lecturer_preferences = [l \in Lecturers |-> NoPrefs]
  /\ room_calendar = {}
  /\ lecturer_calendar = {}
  /\ schedule_result = <<>>
  /\ failed_sections = <<>>

SpecSpread == InitSpread /\ [][SpreadOnlineCourses]_vars

\* C30: after spread_online_courses has redistributed the online classes of
\* a conflict-free timetable, no lecturer has two classes, online or
\* physical, on the same day at overlapping times.
C30_NoOverlapAfterSpread ==
  pc = "spread" => NoLecturerOverlap(schedules)

====
